---- MODULE Spec2Model ----
(***************************************************************************)
(* A model of inbox-zero's email_triage.py: the checkpointed batch         *)
(* fetcher (fetch_metadata, fetch_bodies_batch, save_checkpoint,           *)
(* load_checkpoint), the safe archiver (archive_messages, phase2_archive,  *)
(* the two UID scans, ensure_archive_folder, verify_archive_safety) and    *)
(* the refinement engine (phase2_analyse) and the monitor                   *)
(* (monitor_command).                                                      *)
(*                                                                         *)
(* Each subsystem has its own specification over the shared variables:     *)
(*   SpecFetch    the fetch / checkpoint / crash / resume cycle            *)
(*   SpecArchive  one archive run against an IMAP server                   *)
(*   SpecAnalyse  phase2_analyse applied to bounded message lists          *)
(*   SpecRearchive the archive command run again on the INBOX it left      *)
(*   SpecInterrupt the archive command interrupted and started again      *)
(*   SpecSessions pass1, pass2 and the monitor as separate processes       *)
(*                over a changing INBOX                                    *)
(*   SpecFetchRun one fetch run that is never killed, scheduled fairly     *)
(*   SpecParse    a fetch run over responses with undecodable headers      *)
(*   SpecMonitor  the monitor reading the files pass1 and pass2 write      *)
(*   SpecRate     the monitor's rate and ETA over its sample window        *)
(***************************************************************************)
EXTENDS Integers, Sequences, FiniteSets, TLC

(***************************************************************************)
(* Bounds of the model.                                                    *)
(***************************************************************************)
\* Messages in INBOX during a fetch.
NumMsgs == 3
\* Times the fetching process may be killed.
MaxCrashes == 2
\* Times the fetch command may be started.
MaxRuns == 3
\* pass1 / pass2 processes run one after the other.
MaxSessions == 3
\* Changes of INBOX between sessions.
MaxChanges == 2
\* The monitor's clock runs from 0 to MaxClock seconds.
MaxClock == 3
\* The counts the monitor reads are 0..MaxCount.
MaxCount == 2
\* deque(maxlen=60), scaled
RateWindow == 3

(***************************************************************************)
(* Program constants, scaled down so that several batches occur.           *)
(***************************************************************************)
\* fetch_metadata: batch_size = 500 (scaled)
MetaBatchSize == 2
\* fetch_bodies_batch: batch_size=50 (scaled)
BodyBatchSize == 2

VARIABLES
    \* ---- fetcher and checkpoint store ----
    phase,       \* which fetch command the process runs: "metadata" or "bodies"
    malformed,   \* sequence numbers whose FETCH response item is not a tuple
    undecodable, \* sequence numbers whose From or Subject header decode_header rejects
    files,       \* the output directory: file name -> content
    fpc,         \* the fetching process's position
    acc,         \* fetch_metadata's `messages` / fetch_bodies_batch's `results`
    remaining,   \* remaining_ids / the filtered msg_ids
    offset,      \* the loop variable i
    finalSave,   \* the save in progress is fetch_bodies_batch's final one
    lost,        \* ids this run gave up on after a transport failure
    requested,   \* ids this run has requested from the server
    returned,    \* the value the last completed run returned
    snapshots,   \* history: the snapshots save_checkpoint wrote in full, per path
    fetchlog,    \* the FETCH commands this run has sent, in order
    crashes,     \* how often the process was killed
    runs         \* how often the command was started

fetchVars == <<phase, malformed, undecodable, files, fpc, acc, remaining, offset, finalSave,
               lost, requested, fetchlog, returned, snapshots, crashes, runs>>

VARIABLES
    \* ---- the IMAP server, as an archive run sees it ----
    inbox,        \* INBOX: the messages in sequence-number order
    allmail,      \* Gmail: the UIDs-of-origin of the messages in "[Gmail]/All Mail"
    keepsAllMail, \* Gmail: an expunge from INBOX only removes the INBOX label
    folders,      \* non-Gmail: the folder names LIST returns
    creatable,    \* non-Gmail: the folder names CREATE answers OK for
    holding,      \* non-Gmail: the messages copied into the holding folder
    \* ---- one archive run ----
    cmd,          \* "archive" (archive_messages) or "phase2-archive" (phase2_archive)
    gmail,        \* is_gmail(account)
    dry_run,      \* not args.execute
    target,       \* the sender set, or the report's archive_msg_ids
    apc,          \* the run's position
    matched_uids, \* the scan's result
    bidx,         \* the batch loop's i
    archived,     \* the counter `archived`
    pre_allmail_count,
    post_allmail_count,
    archive_folder,
    warned,       \* the WARNING was printed
    ret,          \* the value returned, -1 before the return
    oplog,        \* history: the mutating commands issued, with the server's answers
    inbox0,       \* history: INBOX when pass 2 ran and the first run started
    \* ---- what the archive command is given ----
    rules,        \* archive_senders of archive_rules.json and shared_rules.json
    classified,   \* the msg_ids pass2_classification.json gives category 'archive'
    aruns         \* how often the archive command was started

serverVars == <<inbox, allmail, keepsAllMail, folders, creatable, holding>>
runVars == <<cmd, gmail, dry_run, target, apc, matched_uids, bidx, archived,
             pre_allmail_count, post_allmail_count, archive_folder, warned, ret,
             oplog, inbox0>>
planVars == <<rules, classified, aruns>>
archiveVars == <<serverVars, runVars, planVars>>

VARIABLES
    \* ---- the refinement engine ----
    messages,     \* the classified records phase2_analyse loads
    now,          \* the clock at run time, in hours
    report        \* phase2_analysis.json, once written

analyseVars == <<messages, now, report>>

VARIABLES
    \* ---- the pipeline across sessions ----
    mbox,         \* INBOX: the UIDs of its messages in sequence-number order
    unread,       \* the UIDs of the messages without \Seen
    uidnext,      \* the UID the next delivered message gets
    artifacts,    \* triage_output/<account>/: file name -> content
    last,         \* history: the last command run and what it did
    before,       \* history: the mailbox and the files before the last command
    addressed,    \* history: the persisted identifiers used to address the server
    sessions,     \* how many pass1 / pass2 processes have run
    job,          \* the file writes the running pass1 / pass2 process still has to make
    rate_history, \* the monitor's rate_history[name]: its (timestamp, count) samples
    mon_time,     \* time.time() at the monitor's last pass, in seconds
    rate_line,    \* the rate and the ETA of the monitor's last pass
    changes       \* how often INBOX changed between sessions

sessionVars == <<mbox, unread, uidnext, artifacts, last, before, addressed,
                 sessions, job, rate_history, mon_time, rate_line, changes>>

vars == <<fetchVars, archiveVars, analyseVars, sessionVars>>

nonFetchVars == <<archiveVars, analyseVars, sessionVars>>
nonArchiveVars == <<fetchVars, analyseVars, sessionVars>>
nonAnalyseVars == <<fetchVars, archiveVars, sessionVars>>
nonSessionVars == <<fetchVars, archiveVars, analyseVars>>

(***************************************************************************)
(* Helpers on sequences.                                                   *)
(***************************************************************************)
Min(a, b) == IF a < b THEN a ELSE b

Range(s) == {s[k] : k \in 1..Len(s)}

RECURSIVE SelectSeqBy(_, _)
\* [x for x in s if x \notin drop]
SelectSeqBy(s, drop) ==
    IF s = <<>> THEN <<>>
    ELSE IF Head(s) \in drop THEN SelectSeqBy(Tail(s), drop)
         ELSE <<Head(s)>> \o SelectSeqBy(Tail(s), drop)

\* s[i:i + n] of Python, i counted from 0
Slice(s, i, n) == SubSeq(s, i + 1, Min(i + n, Len(s)))

(***************************************************************************)
(* The mailbox seen by a fetch: sequence numbers 1..NumMsgs, unchanged     *)
(* while the fetch commands run.                                           *)
(***************************************************************************)
\* mail.search(None, "ALL") on INBOX: every sequence number, ascending
msg_ids == [k \in 1..NumMsgs |-> k]

\* What the server holds for sequence number id, per fetch command: the
\* header fields fetch_metadata records, or the body preview.
RecordOf(ph, id) ==
    IF ph = "metadata"
    THEN [msg_id |-> id, header |-> <<"hdr", id>>]
    ELSE [msg_id |-> id, preview |-> <<"txt", id>>]

(***************************************************************************)
(* Files.  A file is absent, or holds the records written so far;          *)
(* `complete` is set by the write of the closing bracket of the JSON       *)
(* document, so a file whose writer stopped early is not valid JSON.       *)
(***************************************************************************)
Absent == [exists |-> FALSE, data |-> <<>>, complete |-> FALSE]

CheckpointPath(ph) ==
    IF ph = "metadata" THEN "checkpoint_metadata.json" ELSE "checkpoint_bodies.json"

\* The mutant of with_suffix_tmp: the snapshot is written in place.
with_suffix_tmp_inplace(path) == path

\* path.with_suffix(".tmp")
with_suffix_tmp(path) ==
    IF path = "checkpoint_metadata.json" THEN "checkpoint_metadata.tmp"
    ELSE "checkpoint_bodies.tmp"

FileNames == {"checkpoint_metadata.json", "checkpoint_metadata.tmp",
              "checkpoint_bodies.json", "checkpoint_bodies.tmp"}

\* load_checkpoint: None (here <<FALSE, <<>>>>) when the file is absent or is
\* not a JSON document, else the data it holds.
load_checkpoint(f) ==
    IF ~f.exists THEN [ok |-> FALSE, data |-> <<>>]
    ELSE IF ~f.complete THEN [ok |-> FALSE, data |-> <<>>]
    ELSE [ok |-> TRUE, data |-> f.data]

\* The mutant of CheckpointData: only the batch just fetched is written.
CheckpointData_batch_only(accumulator, batch_len) ==
    SubSeq(accumulator, Len(accumulator) - Min(batch_len, Len(accumulator)) + 1,
           Len(accumulator))

\* The data handed to save_checkpoint: {"messages": messages} or
\* {"bodies": results}, the whole accumulator.
CheckpointData(accumulator, batch_len) == accumulator

\* set(m["msg_id"] for m in messages) / the keys of results
fetched_ids(accumulator) == {accumulator[k].msg_id : k \in 1..Len(accumulator)}

\* The mutant of remaining_ids: the run resumes after the last identifier
\* the checkpoint holds.
remaining_ids_after_last(ids, accumulator) ==
    SelectSeq(ids, LAMBDA x : \A f \in fetched_ids(accumulator) : x > f)

\* The mutant of remaining_ids: the checkpoint does not shorten the work
\* list.
remaining_ids_all(ids, accumulator) == ids

\* [mid for mid in msg_ids if mid not in fetched_ids]
remaining_ids(ids, accumulator) == SelectSeqBy(ids, fetched_ids(accumulator))

RECURSIVE merge_batch(_, _, _, _)
\* The loop over batch_data: an item that is not a tuple is skipped, the
\* others are recorded.  fetch_metadata appends; fetch_bodies_batch assigns
\* results[seq_num], which replaces an entry of the same key.
merge_batch(ph, accumulator, batch, bad) ==
    IF batch = <<>> THEN accumulator
    ELSE LET id == Head(batch)
             rec == RecordOf(ph, id)
             next == IF id \in bad THEN accumulator
                     ELSE IF ph = "bodies" /\ id \in fetched_ids(accumulator)
                          THEN [k \in 1..Len(accumulator) |->
                                  IF accumulator[k].msg_id = id THEN rec
                                  ELSE accumulator[k]]
                          ELSE Append(accumulator, rec)
         IN merge_batch(ph, next, Tail(batch), bad)

BatchSize(ph) == IF ph = "metadata" THEN MetaBatchSize ELSE BodyBatchSize

RECURSIVE uninterrupted_run(_, _, _, _)
\* The loop of fetch_metadata / fetch_bodies_batch run from an empty
\* accumulator to its end, every batch answered by the server.
uninterrupted_run(ph, ids, accumulator, bad) ==
    IF ids = <<>> THEN accumulator
    ELSE uninterrupted_run(ph,
                           SubSeq(ids, Min(BatchSize(ph), Len(ids)) + 1, Len(ids)),
                           merge_batch(ph, accumulator, Slice(ids, 0, BatchSize(ph)), bad),
                           bad)

CurrentBatch == Slice(remaining, offset, BatchSize(phase))

\* The part of the batch the item loop has gone through when item k stops it.
RECURSIVE items_before(_, _)
items_before(batch, stop) ==
    IF batch = <<>> \/ Head(batch) \in stop THEN <<>>
    ELSE <<Head(batch)>> \o items_before(Tail(batch), stop)

\* fetch_metadata lines 215-216: decode_header_value(msg.get("From", "")) and
\* decode_header_value(msg.get("Subject", ...)) stand after the try round
\* message_from_bytes; email.header.decode_header raises HeaderParseError on
\* an encoded word whose base64 text does not decode, and nothing catches
\* it.  fetch_bodies_batch parses inside extract_plain_text, which catches
\* every exception.
item_raises(ph, batch, bad, undec) ==
    /\ ph = "metadata"
    /\ \E id \in Range(batch) : id \in undec /\ id \notin bad

\* The mutant of next_offset: the loop comes back to the same batch.
next_offset_same_batch(i, ph) == i

\* for i in range(0, len(ids), batch_size): the next value of i.
next_offset(i, ph) == i + BatchSize(ph)

\* One FETCH command as the run sent it: the identifiers it names, whether
\* it is a single-identifier retry, and how the server answered.
BatchFetch(batch, outcome) == [ids |-> batch, single |-> FALSE, outcome |-> outcome]

\* The mutant of SingleFetches: the retry goes on to the end of the work list.
SingleFetches_to_end(batch, failed, rest) ==
    [k \in 1..Len(rest) |->
        [ids |-> <<rest[k]>>, single |-> TRUE,
         outcome |-> IF rest[k] \in failed THEN "error" ELSE "OK"]]

\* for single_id in batch: mail.fetch(single_id.encode(), ...) inside
\* try/except Exception: pass.
SingleFetches(batch, failed, rest) ==
    [k \in 1..Len(batch) |->
        [ids |-> <<batch[k]>>, single |-> TRUE,
         outcome |-> IF batch[k] \in failed THEN "error" ELSE "OK"]]

(***************************************************************************)
(* The fetching process.                                                   *)
(***************************************************************************)
FetchInit ==
    /\ phase \in {"metadata", "bodies"}
    /\ malformed \in SUBSET (1..NumMsgs)
    /\ undecodable = {}
    /\ files = [n \in FileNames |-> Absent]
    /\ fpc = "idle"
    /\ acc = <<>>
    /\ remaining = <<>>
    /\ offset = 0
    /\ finalSave = FALSE
    /\ lost = {}
    /\ requested = {}
    /\ fetchlog = <<>>
    /\ returned = <<>>
    /\ snapshots = [n \in FileNames |-> {}]
    /\ crashes = 0
    /\ runs = 0

\* fetch_metadata lines 171-191 / fetch_bodies_batch lines 356-365: the
\* identifiers are enumerated, the checkpoint is loaded into the accumulator
\* and the identifiers it holds are dropped from the work list.
FetchStart ==
    /\ fpc = "idle"
    /\ runs < MaxRuns
    /\ LET cp == load_checkpoint(files[CheckpointPath(phase)])
           loaded == IF cp.ok THEN cp.data ELSE <<>>
       IN /\ acc' = loaded
          /\ remaining' = IF cp.ok THEN remaining_ids(msg_ids, loaded) ELSE msg_ids
    /\ offset' = 0
    /\ finalSave' = FALSE
    /\ lost' = {}
    /\ requested' = {}
    /\ fetchlog' = <<>>
    /\ fpc' = "loop"
    /\ runs' = runs + 1
    /\ UNCHANGED <<phase, malformed, undecodable, files, returned, snapshots, crashes>>
    /\ UNCHANGED nonFetchVars

\* One batch fetched and parsed (fetch_metadata lines 195-235,
\* fetch_bodies_batch lines 368-376 and 403-411); the checkpoint follows.
FetchBatch ==
    /\ fpc = "loop"
    /\ offset < Len(remaining)
    /\ ~item_raises(phase, CurrentBatch, malformed, undecodable)
    /\ acc' = merge_batch(phase, acc, CurrentBatch, malformed)
    /\ requested' = requested \cup Range(CurrentBatch)
    /\ fetchlog' = Append(fetchlog, BatchFetch(CurrentBatch, "OK"))
    /\ fpc' = "save_open"
    /\ UNCHANGED <<phase, malformed, undecodable, files, remaining, offset, finalSave, lost,
                   returned, snapshots, crashes, runs>>
    /\ UNCHANGED nonFetchVars

\* fetch_metadata lines 199-235: the batch is answered, the item loop records
\* the items before the one whose header does not decode, and the exception
\* leaves fetch_metadata: no checkpoint of this batch, no return value.
FetchItemRaises ==
    /\ fpc = "loop"
    /\ offset < Len(remaining)
    /\ item_raises(phase, CurrentBatch, malformed, undecodable)
    /\ acc' = merge_batch(phase, acc,
                          items_before(CurrentBatch, undecodable \ malformed), malformed)
    /\ requested' = requested \cup Range(CurrentBatch)
    /\ fetchlog' = Append(fetchlog, BatchFetch(CurrentBatch, "OK"))
    /\ fpc' = "raised"
    /\ UNCHANGED <<phase, malformed, undecodable, files, remaining, offset, finalSave,
                   lost, returned, snapshots, crashes, runs>>
    /\ UNCHANGED nonFetchVars

\* fetch_bodies_batch lines 377-398: the batch fetch raised TimeoutError or
\* OSError; each identifier of the batch is fetched singly, a single fetch
\* that raises is passed over; the checkpoint follows.
FetchBatchTimeout ==
    /\ fpc = "loop"
    /\ phase = "bodies"
    /\ offset < Len(remaining)
    /\ \E failed \in SUBSET Range(CurrentBatch) :
          /\ acc' = merge_batch(phase, acc, SelectSeqBy(CurrentBatch, failed), malformed)
          /\ lost' = lost \cup failed
          /\ fetchlog' = Append(fetchlog, BatchFetch(CurrentBatch, "timeout"))
                           \o SingleFetches(CurrentBatch, failed,
                                            SubSeq(remaining, offset + 1, Len(remaining)))
    /\ requested' = requested \cup Range(CurrentBatch)
    /\ fpc' = "save_open"
    /\ UNCHANGED <<phase, malformed, undecodable, files, remaining, offset, finalSave,
                   returned, snapshots, crashes, runs>>
    /\ UNCHANGED nonFetchVars

\* fetch_bodies_batch lines 399-401: the batch fetch raised another
\* exception; the batch is skipped and no checkpoint is written.
FetchBatchError ==
    /\ fpc = "loop"
    /\ phase = "bodies"
    /\ offset < Len(remaining)
    /\ lost' = lost \cup Range(CurrentBatch)
    /\ requested' = requested \cup Range(CurrentBatch)
    /\ fetchlog' = Append(fetchlog, BatchFetch(CurrentBatch, "error"))
    /\ offset' = next_offset(offset, phase)
    /\ UNCHANGED <<phase, malformed, undecodable, files, fpc, acc, remaining, finalSave,
                   returned, snapshots, crashes, runs>>
    /\ UNCHANGED nonFetchVars

\* The loop is over: fetch_metadata returns messages (line 244);
\* fetch_bodies_batch saves once more (lines 420-421) and then returns.
FetchLoopEnd ==
    /\ fpc = "loop"
    /\ offset >= Len(remaining)
    /\ IF phase = "metadata"
       THEN /\ fpc' = "done"
            /\ returned' = acc
            /\ UNCHANGED finalSave
       ELSE /\ fpc' = "save_open"
            /\ finalSave' = TRUE
            /\ UNCHANGED returned
    /\ UNCHANGED <<phase, malformed, undecodable, files, acc, remaining, offset, lost,
                   requested, fetchlog, snapshots, crashes, runs>>
    /\ UNCHANGED nonFetchVars

\* save_checkpoint line 147: open(tmp, "w") creates or truncates the file.
SaveOpen ==
    /\ fpc = "save_open"
    /\ files' = [files EXCEPT ![with_suffix_tmp(CheckpointPath(phase))] =
                    [exists |-> TRUE, data |-> <<>>, complete |-> FALSE]]
    /\ fpc' = "save_write"
    /\ UNCHANGED <<phase, malformed, undecodable, acc, remaining, offset, finalSave, lost,
                   requested, fetchlog, returned, snapshots, crashes, runs>>
    /\ UNCHANGED nonFetchVars

\* save_checkpoint line 148: json.dump writes the document piece by piece;
\* the last piece closes it.
SaveWrite ==
    /\ fpc = "save_write"
    /\ LET tmp == with_suffix_tmp(CheckpointPath(phase))
           data == CheckpointData(acc, Len(CurrentBatch))
           f == files[tmp]
       IN IF Len(f.data) < Len(data)
          THEN /\ files' = [files EXCEPT ![tmp].data = Append(f.data, data[Len(f.data) + 1])]
               /\ UNCHANGED <<fpc, snapshots>>
          ELSE /\ files' = [files EXCEPT ![tmp].complete = TRUE]
               /\ snapshots' = [snapshots EXCEPT ![CheckpointPath(phase)] = @ \cup {data}]
               /\ fpc' = "save_rename"
    /\ UNCHANGED <<phase, malformed, undecodable, acc, remaining, offset, finalSave, lost,
                   requested, fetchlog, returned, crashes, runs>>
    /\ UNCHANGED nonFetchVars

\* save_checkpoint line 149: tmp.rename(path) replaces the checkpoint in one
\* step.  The caller then goes on: the next batch, or the return.
SaveRename ==
    /\ fpc = "save_rename"
    /\ LET path == CheckpointPath(phase)
           tmp == with_suffix_tmp(path)
       IN IF tmp = path
          THEN UNCHANGED files
          ELSE files' = [files EXCEPT ![path] = files[tmp], ![tmp] = Absent]
    /\ IF finalSave
       THEN /\ fpc' = "done"
            /\ returned' = acc
            /\ UNCHANGED offset
       ELSE /\ fpc' = "loop"
            /\ offset' = next_offset(offset, phase)
            /\ UNCHANGED returned
    /\ UNCHANGED <<phase, malformed, undecodable, acc, remaining, finalSave, lost,
                   requested, fetchlog, snapshots, crashes, runs>>
    /\ UNCHANGED nonFetchVars

\* The process is killed: its memory is gone, the files stay.
Crash ==
    /\ fpc \notin {"idle", "done"}
    /\ crashes < MaxCrashes
    /\ crashes' = crashes + 1
    /\ fpc' = "idle"
    /\ acc' = <<>>
    /\ remaining' = <<>>
    /\ offset' = 0
    /\ finalSave' = FALSE
    /\ lost' = {}
    /\ requested' = {}
    /\ fetchlog' = <<>>
    /\ UNCHANGED <<phase, malformed, undecodable, files, returned, snapshots, runs>>
    /\ UNCHANGED nonFetchVars

\* The process ends after the return, or with the exception.
FetchExit ==
    /\ fpc \in {"done", "raised"}
    /\ fpc' = "idle"
    /\ acc' = <<>>
    /\ remaining' = <<>>
    /\ offset' = 0
    /\ finalSave' = FALSE
    /\ lost' = {}
    /\ requested' = {}
    /\ fetchlog' = <<>>
    /\ UNCHANGED <<phase, malformed, undecodable, files, returned, snapshots, crashes, runs>>
    /\ UNCHANGED nonFetchVars


FetchNext ==
    \/ FetchStart
    \/ FetchBatch
    \/ FetchBatchTimeout
    \/ FetchBatchError
    \/ FetchLoopEnd
    \/ SaveOpen
    \/ SaveWrite
    \/ SaveRename
    \/ Crash
    \/ FetchExit

\* The fetcher's variables in the specifications that do not run it.
FetchIdle ==
    /\ phase = "metadata"
    /\ malformed = {}
    /\ undecodable = {}
    /\ files = [n \in FileNames |-> Absent]
    /\ fpc = "idle"
    /\ acc = <<>>
    /\ remaining = <<>>
    /\ offset = 0
    /\ finalSave = FALSE
    /\ lost = {}
    /\ requested = {}
    /\ fetchlog = <<>>
    /\ returned = <<>>
    /\ snapshots = [n \in FileNames |-> {}]
    /\ crashes = 0
    /\ runs = 0

(***************************************************************************)
(* Subjects are sequences of lower-case words; a reply or forward prefix   *)
(* is a word of its own.                                                   *)
(***************************************************************************)
ReplyPrefixes == {"re:", "fwd:", "fw:"}

\* _normalise_subject: one leading Re:/Fwd:/FW: is stripped (the pattern is
\* anchored, so a second prefix stays); runs of whitespace collapse, which a
\* sequence of words has done already.
normalise_subject(subj) ==
    IF subj # <<>> /\ Head(subj) \in ReplyPrefixes THEN Tail(subj) ELSE subj

(***************************************************************************)
(* The IMAP server of an archive run.                                      *)
(***************************************************************************)
\* Messages in INBOX when an archive run starts.
NumInbox == 3
\* Times the archive command may be started.
MaxArchiveRuns == 2
\* The records of a short input of the refinement engine.
NumDecayMsgs == 1
\* The most messages of one sender's day.
NumBurstMsgs == 6
\* archive_messages: batch_size=200; phase2_archive: batch_size = 200 (scaled)
ArchiveBatchSize == 2

\* batch_size = 200 in phase2_archive, scaled as ArchiveBatchSize is.
Phase2BatchSize == 2

Senders == {"a@x.org", "b@x.org"}
SubjHello == <<"hello">>
SubjReHello == <<"re:", "hello">>
\* The messages an INBOX of the archive runs is made of: two of one sender
\* whose subjects differ by a reply prefix, and one of another sender.
InboxShapes == {[from_email |-> "a@x.org", subject |-> SubjHello],
                [from_email |-> "a@x.org", subject |-> SubjReHello],
                [from_email |-> "b@x.org", subject |-> SubjHello]}
HoldingNames == {"Archive", "INBOX.Archive"}
NoFolder == "None"

\* UIDs are not sequence numbers.
UidOf(k) == 10 + k

UidsOf(box) == {box[k].uid : k \in 1..Len(box)}

MsgOfUid(box, uid) == CHOOSE m \in Range(box) : m.uid = uid

RECURSIVE UidsWhere(_, _)
\* The scan loop: the UIDs, in mailbox order, of the messages that match.
UidsWhere(box, matching) ==
    IF box = <<>> THEN <<>>
    ELSE (IF Head(box).uid \in matching THEN <<Head(box).uid>> ELSE <<>>)
         \o UidsWhere(Tail(box), matching)

\* scan_inbox_uids_by_sender: UID SEARCH ALL, then a PEEK fetch of the From
\* header of every UID; a message matches when its sender is a target.
scan_inbox_uids_by_sender(box, target_senders) ==
    UidsWhere(box, {m.uid : m \in {x \in Range(box) : x.from_email \in target_senders}})

\* The (sender, normalised subject) key of scan_inbox_uids_for_phase2.
target_key(m) == <<m.from_email, normalise_subject(m.subject)>>

\* The mutant of scan_inbox_uids_for_phase2: the target identifiers of the
\* analysis file are used as they are.
scan_inbox_uids_for_phase2_persisted(box, target_msg_ids, messages_lookup) ==
    SelectSeq([k \in DOMAIN messages_lookup |-> k], LAMBDA k : k \in target_msg_ids)

\* scan_inbox_uids_for_phase2: the targets' keys are looked up in the pass-2
\* data; a message of INBOX matches when its key is one of them.
scan_inbox_uids_for_phase2(box, target_msg_ids, messages_lookup) ==
    LET target_keys == {target_key(messages_lookup[mid]) :
                           mid \in target_msg_ids \cap DOMAIN messages_lookup}
    IN UidsWhere(box, {m.uid : m \in {x \in Range(box) : target_key(x) \in target_keys}})

\* The pass-2 data phase2_archive reads: one record per message of INBOX as
\* it was when pass 2 ran, keyed by the sequence number of that time.
messages_lookup_of(box) ==
    [k \in 1..Len(box) |-> [from_email |-> box[k].from_email, subject |-> box[k].subject]]

\* ensure_archive_folder's test of one LIST line.
list_line_matches(name) == name = "Archive"

\* ensure_archive_folder: "Archive" when a LIST line matches; else CREATE
\* Archive, else CREATE INBOX.Archive; None when both are refused.
\* CREATE answers OK for a name the server allows and does not hold yet.
ensure_archive_folder(have, allowed) ==
    LET ok(name) == name \in allowed /\ name \notin have
        try(name) == [op |-> "create", uids |-> {}, arg |-> name,
                      typ |-> IF ok(name) THEN "OK" ELSE "NO"]
    IN IF \E f \in have : list_line_matches(f)
       THEN [folder |-> "Archive", created |-> {}, ops |-> <<>>]
       ELSE IF ok("Archive")
       THEN [folder |-> "Archive", created |-> {"Archive"}, ops |-> <<try("Archive")>>]
       ELSE IF ok("INBOX.Archive")
       THEN [folder |-> "INBOX.Archive", created |-> {"INBOX.Archive"},
             ops |-> <<try("Archive"), try("INBOX.Archive")>>]
       ELSE [folder |-> NoFolder, created |-> {},
             ops |-> <<try("Archive"), try("INBOX.Archive")>>]

\* The mutant of dry_run_stops: the flag is ignored.
dry_run_ignored(flag) == FALSE

\* archive_messages line 568 / phase2_archive line 1473: if dry_run: return 0
dry_run_stops(flag) == flag

\* The mutant of folder_unavailable: the run goes on without a folder.
folder_unavailable_ignored(folder) == FALSE

\* archive_messages line 584 / phase2_archive line 1490: if not archive_folder
folder_unavailable(folder) == folder = NoFolder

\* The mutant of copy_failed: the answer to UID COPY is not looked at.
copy_failed_ignored(typ) == FALSE

\* archive_messages line 600 / phase2_archive line 1504: if typ != "OK": continue
copy_failed(typ) == typ # "OK"

\* The mutant of verify_archive_safety: the counts are not compared.
verify_archive_safety_always(is_gmail, post_count, pre_count, raised) == TRUE

\* verify_archive_safety: True for a non-Gmail account; else whether the
\* All Mail count has not decreased; False when the check itself raised.
verify_archive_safety(is_gmail, post_count, pre_count, raised) ==
    IF ~is_gmail THEN TRUE
    ELSE IF raised THEN FALSE
    ELSE post_count >= pre_count

\* main, lines 1642-1655: the senders of the rules, with the sender of every
\* record classified 'archive'.
all_archive_senders(rule_senders, archive_ids, pass2_box) ==
    rule_senders \cup {pass2_box[k].from_email : k \in archive_ids \cap DOMAIN pass2_box}

\* EXPUNGE on the selected INBOX: every message that carries \Deleted goes;
\* the others keep their UIDs (scan_inbox_uids_by_sender: "stable across
\* expunges").
expunge(box) == SelectSeq(box, LAMBDA m : ~m.deleted)

CurrentUidBatch == Slice(matched_uids, bidx, ArchiveBatchSize)

\* The mutant of loop_done: the expunge does not wait for the loop.
loop_done_early(i, uids) == TRUE

\* The mutant of loop_done: the loop is left after its first batch.
loop_done_first_batch(i, uids) == i >= Min(ArchiveBatchSize, Len(uids))

\* for i in range(0, len(matched_uids), batch_size): the loop is over
loop_done(i, uids) == i >= Len(uids)

\* The mutant of batch_count: a refused batch is counted as well.
batch_count_always(typ, batch) == Len(batch)

\* Lines 605-609, 1509-1513: what a batch adds to `archived`; the `continue`
\* of a refused store skips the addition.
batch_count(typ, batch) == IF typ = "OK" THEN Len(batch) ELSE 0

LogOp(kind, uids, arg, typ) == [op |-> kind, uids |-> uids, arg |-> arg, typ |-> typ]

(***************************************************************************)
(* One archive run: archive_messages, or phase2_archive from its scan on.  *)
(***************************************************************************)
ArchiveInit ==
    /\ cmd \in {"archive", "phase2-archive"}
    /\ gmail \in BOOLEAN
    /\ dry_run \in BOOLEAN
    /\ \E shape \in [1..NumInbox -> InboxShapes] :
          inbox = [k \in 1..NumInbox |->
                      [uid |-> UidOf(k), from_email |-> shape[k].from_email,
                       subject |-> shape[k].subject, mid |-> k, deleted |-> FALSE]]
    /\ inbox0 = inbox
    /\ rules \in IF cmd = "archive" THEN SUBSET Senders ELSE {{}}
    /\ classified = {}
    /\ target \in IF cmd = "archive"
                  THEN {all_archive_senders(rules, classified, inbox)}
                  ELSE SUBSET (1..NumInbox)
    /\ aruns = 1
    /\ allmail = IF gmail THEN UidsOf(inbox) \cup {UidOf(0)} ELSE {}
    /\ keepsAllMail \in IF gmail THEN BOOLEAN ELSE {TRUE}
    /\ folders \in IF gmail THEN {{}} ELSE SUBSET HoldingNames
    /\ creatable \in IF gmail THEN {{}} ELSE SUBSET HoldingNames
    /\ holding = {}
    /\ apc = "start"
    /\ matched_uids = <<>>
    /\ bidx = 0
    /\ archived = 0
    /\ pre_allmail_count = 0
    /\ post_allmail_count = 0
    /\ archive_folder = NoFolder
    /\ warned = FALSE
    /\ ret = -1
    /\ oplog = <<>>

\* The archiver's variables in the specifications that do not run it.
ArchiveIdle ==
    /\ cmd = "archive"
    /\ gmail = TRUE
    /\ dry_run = TRUE
    /\ inbox = <<>>
    /\ inbox0 = <<>>
    /\ rules = {}
    /\ classified = {}
    /\ aruns = 0
    /\ target = {}
    /\ allmail = {}
    /\ keepsAllMail = TRUE
    /\ folders = {}
    /\ creatable = {}
    /\ holding = {}
    /\ apc = "idle"
    /\ matched_uids = <<>>
    /\ bidx = 0
    /\ archived = 0
    /\ pre_allmail_count = 0
    /\ post_allmail_count = 0
    /\ archive_folder = NoFolder
    /\ warned = FALSE
    /\ ret = -1
    /\ oplog = <<>>

\* Scanning: INBOX is selected read-only and enumerated by UID
\* (archive_messages line 562, phase2_archive line 1467).
ArchScan ==
    /\ apc = "start"
    /\ matched_uids' =
          IF cmd = "archive"
          THEN scan_inbox_uids_by_sender(inbox, target)
          ELSE scan_inbox_uids_for_phase2(inbox, target, messages_lookup_of(inbox0))
    /\ apc' = "scanned"
    /\ UNCHANGED <<serverVars, cmd, gmail, dry_run, target, bidx, archived,
                   pre_allmail_count, post_allmail_count, archive_folder, warned,
                   ret, oplog, inbox0>>
    /\ UNCHANGED planVars
    /\ UNCHANGED nonArchiveVars

\* Nothing matched: return 0 (lines 564-566, 1469-1471).
ArchNoMatch ==
    /\ apc = "scanned"
    /\ matched_uids = <<>>
    /\ ret' = 0
    /\ apc' = "done"
    /\ UNCHANGED <<serverVars, cmd, gmail, dry_run, target, matched_uids, bidx,
                   archived, pre_allmail_count, post_allmail_count, archive_folder,
                   warned, oplog, inbox0>>
    /\ UNCHANGED planVars
    /\ UNCHANGED nonArchiveVars

\* DryRunStop: the count is reported and 0 is returned (lines 568-571, 1473-1476).
ArchDryRun ==
    /\ apc = "scanned"
    /\ matched_uids # <<>>
    /\ dry_run_stops(dry_run)
    /\ ret' = 0
    /\ apc' = "done"
    /\ UNCHANGED <<serverVars, cmd, gmail, dry_run, target, matched_uids, bidx,
                   archived, pre_allmail_count, post_allmail_count, archive_folder,
                   warned, oplog, inbox0>>
    /\ UNCHANGED planVars
    /\ UNCHANGED nonArchiveVars

\* Gmail: the All Mail count is snapshotted through a read-only select
\* (lines 576-580, 1484-1487).
ArchSnapshot ==
    /\ apc = "scanned"
    /\ matched_uids # <<>>
    /\ ~dry_run_stops(dry_run)
    /\ gmail
    /\ pre_allmail_count' = Cardinality(allmail)
    /\ apc' = "select"
    /\ UNCHANGED <<serverVars, cmd, gmail, dry_run, target, matched_uids, bidx,
                   archived, post_allmail_count, archive_folder, warned, ret,
                   oplog, inbox0>>
    /\ UNCHANGED planVars
    /\ UNCHANGED nonArchiveVars

\* Non-Gmail: the holding folder is located or created; without one the run
\* returns 0 (lines 581-587, 1488-1493).
ArchEnsureFolder ==
    /\ apc = "scanned"
    /\ matched_uids # <<>>
    /\ ~dry_run_stops(dry_run)
    /\ ~gmail
    /\ LET r == ensure_archive_folder(folders, creatable)
       IN /\ folders' = folders \cup r.created
          /\ oplog' = oplog \o r.ops
          /\ archive_folder' = r.folder
          /\ IF folder_unavailable(r.folder)
             THEN ret' = 0 /\ apc' = "done"
             ELSE apc' = "select" /\ UNCHANGED ret
    /\ UNCHANGED <<inbox, allmail, keepsAllMail, creatable, holding, cmd, gmail,
                   dry_run, target, matched_uids, bidx, archived,
                   pre_allmail_count, post_allmail_count, warned, inbox0>>
    /\ UNCHANGED planVars
    /\ UNCHANGED nonArchiveVars

\* mail.select("INBOX"), read-write; archived = 0 (lines 590-591, 1495-1496).
ArchSelect ==
    /\ apc = "select"
    /\ oplog' = Append(oplog, LogOp("select_rw", {}, "INBOX", "OK"))
    /\ archived' = 0
    /\ apc' = "batch"
    /\ UNCHANGED <<serverVars, cmd, gmail, dry_run, target, matched_uids, bidx,
                   pre_allmail_count, post_allmail_count, archive_folder, warned,
                   ret, inbox0>>
    /\ UNCHANGED planVars
    /\ UNCHANGED nonArchiveVars

\* Non-Gmail: UID COPY of the batch into the holding folder; on another
\* answer than OK the batch is skipped (lines 597-602, 1502-1506).
ArchCopy ==
    /\ apc = "batch"
    /\ bidx < Len(matched_uids)
    /\ ~gmail
    /\ \E typ \in {"OK", "NO"} :
          /\ oplog' = Append(oplog, LogOp("copy", Range(CurrentUidBatch), archive_folder, typ))
          /\ holding' = IF typ = "OK"
                        THEN holding \cup (Range(CurrentUidBatch) \cap UidsOf(inbox))
                        ELSE holding
          /\ IF copy_failed(typ)
             THEN bidx' = bidx + ArchiveBatchSize /\ UNCHANGED apc
             ELSE apc' = "store" /\ UNCHANGED bidx
    /\ UNCHANGED <<inbox, allmail, keepsAllMail, folders, creatable, cmd, gmail,
                   dry_run, target, matched_uids, archived, pre_allmail_count,
                   post_allmail_count, archive_folder, warned, ret, inbox0>>
    /\ UNCHANGED planVars
    /\ UNCHANGED nonArchiveVars

\* Flagging: UID STORE +FLAGS \Deleted on the batch; on OK the batch is
\* counted, on another answer it is skipped (lines 604-609, 1508-1513).
ArchStore ==
    /\ \/ apc = "batch" /\ gmail /\ bidx < Len(matched_uids)
       \/ apc = "store"
    /\ \E typ \in {"OK", "NO"} :
          /\ oplog' = Append(oplog, LogOp("store", Range(CurrentUidBatch), "+FLAGS", typ))
          /\ inbox' = IF typ = "OK"
                      THEN [k \in 1..Len(inbox) |->
                              IF inbox[k].uid \in Range(CurrentUidBatch)
                              THEN [inbox[k] EXCEPT !.deleted = TRUE]
                              ELSE inbox[k]]
                      ELSE inbox
          /\ archived' = archived + batch_count(typ, CurrentUidBatch)
    /\ bidx' = bidx + ArchiveBatchSize
    /\ apc' = "batch"
    /\ UNCHANGED <<allmail, keepsAllMail, folders, creatable, holding, cmd, gmail,
                   dry_run, target, matched_uids, pre_allmail_count,
                   post_allmail_count, archive_folder, warned, ret, inbox0>>
    /\ UNCHANGED planVars
    /\ UNCHANGED nonArchiveVars

\* Expunging: one EXPUNGE after the loop removes every message of INBOX that
\* carries \Deleted (lines 613-615, 1517-1518).  On Gmail the message stays
\* in All Mail when the account archives on expunge, and leaves it otherwise.
ArchExpunge ==
    /\ apc = "batch"
    /\ loop_done(bidx, matched_uids)
    /\ LET gone == {m.uid : m \in {x \in Range(inbox) : x.deleted}}
       IN /\ inbox' = expunge(inbox)
          /\ allmail' = IF gmail /\ ~keepsAllMail THEN allmail \ gone ELSE allmail
          /\ oplog' = Append(oplog, LogOp("expunge", gone, "INBOX", "OK"))
    /\ apc' = "verify"
    /\ UNCHANGED <<keepsAllMail, folders, creatable, holding, cmd, gmail, dry_run,
                   target, matched_uids, bidx, archived, pre_allmail_count,
                   post_allmail_count, archive_folder, warned, ret, inbox0>>
    /\ UNCHANGED planVars
    /\ UNCHANGED nonArchiveVars

\* The mutant of return_count: the number of matched identifiers is returned.
return_count_matched(n, matched) == Len(matched)

\* return archived (lines 628, 1526)
return_count(n, matched) == n

\* SafetyCheck, then Done or Warned: the warning is printed when
\* verify_archive_safety is false; `archived` is returned either way
\* (lines 617-628, 1520-1526).
ArchVerify ==
    /\ apc = "verify"
    /\ \E raised \in IF gmail THEN BOOLEAN ELSE {FALSE} :
          /\ post_allmail_count' = Cardinality(allmail)
          /\ warned' = ~verify_archive_safety(gmail, Cardinality(allmail),
                                              pre_allmail_count, raised)
    /\ ret' = return_count(archived, matched_uids)
    /\ apc' = "done"
    /\ UNCHANGED <<serverVars, cmd, gmail, dry_run, target, matched_uids, bidx,
                   archived, pre_allmail_count, archive_folder, oplog, inbox0>>
    /\ UNCHANGED planVars
    /\ UNCHANGED nonArchiveVars

ArchiveNext ==
    \/ ArchScan
    \/ ArchNoMatch
    \/ ArchDryRun
    \/ ArchSnapshot
    \/ ArchEnsureFolder
    \/ ArchSelect
    \/ ArchCopy
    \/ ArchStore
    \/ ArchExpunge
    \/ ArchVerify

(***************************************************************************)
(* The archive command run again: against an INBOX that may already hold   *)
(* a message flagged \Deleted by another client, with the senders of the   *)
(* classification among the targets, and started anew after it returned.   *)
(***************************************************************************)
\* An INBOX of n messages: first those of shape 1, then 2, then 3.
RearchiveBoxes(n) ==
    {[k \in 1..n |-> IF k <= i THEN [from_email |-> "a@x.org", subject |-> SubjHello]
                     ELSE IF k <= i + j
                     THEN [from_email |-> "a@x.org", subject |-> SubjReHello]
                     ELSE [from_email |-> "b@x.org", subject |-> SubjHello]] :
        i \in 0..n, j \in 0..n}

RearchiveInit ==
    /\ cmd \in {"archive", "phase2-archive"}
    /\ gmail \in BOOLEAN
    /\ dry_run \in BOOLEAN
    /\ \E shape \in RearchiveBoxes(NumInbox), preflagged \in {0, NumInbox} :
          inbox = [k \in 1..NumInbox |->
                      [uid |-> UidOf(k), from_email |-> shape[k].from_email,
                       subject |-> shape[k].subject, mid |-> k,
                       deleted |-> (k = preflagged)]]
    /\ inbox0 = inbox
    /\ rules \in IF cmd = "archive" THEN {{}, {"b@x.org"}} ELSE {{}}
    /\ classified \in IF cmd = "archive" THEN {{}, {1}} ELSE {{}}
    /\ target \in IF cmd = "archive"
                  THEN {all_archive_senders(rules, classified, inbox)}
                  ELSE {{}, {1}, {1, 2}}
    /\ aruns = 1
    /\ allmail = IF gmail THEN UidsOf(inbox) \cup {UidOf(0)} ELSE {}
    /\ keepsAllMail = TRUE
    /\ folders = IF gmail THEN {} ELSE {"Archive"}
    /\ creatable = {}
    /\ holding = {}
    /\ apc = "start"
    /\ matched_uids = <<>>
    /\ bidx = 0
    /\ archived = 0
    /\ pre_allmail_count = 0
    /\ post_allmail_count = 0
    /\ archive_folder = NoFolder
    /\ warned = FALSE
    /\ ret = -1
    /\ oplog = <<>>

\* The command is started again, with or without --execute, against the
\* mailbox the runs before it left.
ArchRerun ==
    /\ apc = "done"
    /\ aruns < MaxArchiveRuns
    /\ aruns' = aruns + 1
    /\ dry_run' \in BOOLEAN
    /\ apc' = "start"
    /\ matched_uids' = <<>>
    /\ bidx' = 0
    /\ archived' = 0
    /\ pre_allmail_count' = 0
    /\ post_allmail_count' = 0
    /\ archive_folder' = NoFolder
    /\ warned' = FALSE
    /\ ret' = -1
    /\ oplog' = <<>>
    /\ UNCHANGED <<serverVars, cmd, gmail, target, inbox0, rules, classified>>
    /\ UNCHANGED nonArchiveVars

RearchiveNext == ArchiveNext \/ ArchRerun

(***************************************************************************)
(* The archive command interrupted and run again.  An interrupt (Ctrl-C, a *)
(* kill, a dropped connection) ends the process where it stands; main's    *)
(* finally clause logs out, which expunges nothing, so the server keeps    *)
(* the copies made and the flags set so far.                               *)
(***************************************************************************)
\* The process ends between two commands of archive_messages or
\* phase2_archive (lines 559-628, 1463-1526; main, lines 1666-1667).
ArchInterrupt ==
    /\ apc \in {"start", "scanned", "select", "batch", "store", "verify"}
    /\ apc' = "killed"
    /\ UNCHANGED <<serverVars, cmd, gmail, dry_run, target, matched_uids, bidx,
                   archived, pre_allmail_count, post_allmail_count, archive_folder,
                   warned, ret, oplog, inbox0>>
    /\ UNCHANGED planVars
    /\ UNCHANGED nonArchiveVars

\* The same command is started again against the mailbox the interrupted
\* run left.
ArchRestart ==
    /\ apc = "killed"
    /\ aruns < MaxArchiveRuns
    /\ aruns' = aruns + 1
    /\ apc' = "start"
    /\ matched_uids' = <<>>
    /\ bidx' = 0
    /\ archived' = 0
    /\ pre_allmail_count' = 0
    /\ post_allmail_count' = 0
    /\ archive_folder' = NoFolder
    /\ warned' = FALSE
    /\ ret' = -1
    /\ oplog' = <<>>
    /\ UNCHANGED <<serverVars, cmd, gmail, dry_run, target, inbox0, rules, classified>>
    /\ UNCHANGED nonArchiveVars

InterruptNext == ArchiveNext \/ ArchInterrupt \/ ArchRestart

(***************************************************************************)
(* The refinement engine: phase2_analyse.  Dates are hours on one time     *)
(* line; a record is [msg_id, from_email, subject, reason, category,       *)
(* date].  The keyword heuristics look for their keywords among the words  *)
(* of the subject, the reason and the address.                             *)
(***************************************************************************)
\* Categories that should never be archived regardless of patterns
KEEP_CATEGORIES == {"urgent", "action_needed"}

\* _parse_date returns None
NoDate == -1

HoursPerDay == 24
\* The thresholds of the time-decay buckets, in days.
NotificationDays == 7
ReceiptDays == 90
SecurityDays == 30
NewsletterDays == 14
ReviewDays == 365
\* A burst: this many similar messages within this many hours.
BurstSize == 5
BurstHours == 24
\* The prefix key: the first words of the normalised subject.
PrefixWords == 4

\* _first_n_words: the first n words, lower-cased
first_n_words(text, n) == SubSeq(text, 1, Min(n, Len(text)))

\* _jaccard(a, b) >= 0.6 on the word sets; 0.0 when either is empty
jaccard_similar(a, b) ==
    LET sa == Range(a)
        sb == Range(b)
    IN IF sa = {} \/ sb = {} THEN FALSE
       ELSE 10 * Cardinality(sa \cap sb) >= 6 * Cardinality(sa \cup sb)

\* _days_old: (now - dt).days
days_old(date, clock) == (clock - date) \div HoursPerDay

NotifAddrWords == {"noreply", "no-reply", "notify", "notification", "alerts", "mailer-daemon"}
NotifSubjWords == {"notification", "alert", "reminder", "update", "digest"}
ReceiptWords == {"receipt", "confirmation", "order", "invoice", "payment", "shipped", "delivered"}
NewsSubjWords == {"newsletter", "digest", "weekly", "monthly"}
NewsReasonWords == {"marketing", "newsletter", "promotional"}
NewsAddrWords == {"newsletter", "digest", "marketing", "campaign", "promo"}
SecurityWords == {"sign-in", "signin", "login", "password", "2fa", "two-factor"}
FinReasonWords == {"financial", "tax", "hmrc", "bank", "accountant", "invoice"}
FinSubjWords == {"tax", "hmrc", "p60", "p45", "statement", "bank"}

\* The words of an address: its local part and its domain.
AddrWords(addr) ==
    IF addr = "noreply@x.org" THEN {"noreply", "x.org"}
    ELSE IF addr = "a@x.org" THEN {"a", "x.org"}
    ELSE {"b", "x.org"}

is_notification_like(msg) ==
    \/ AddrWords(msg.from_email) \cap NotifAddrWords # {}
    \/ Range(msg.subject) \cap NotifSubjWords # {}

is_receipt_like(msg) == Range(msg.subject) \cap ReceiptWords # {}

is_newsletter_like(msg) ==
    \/ Range(msg.subject) \cap NewsSubjWords # {}
    \/ Range(msg.reason) \cap NewsReasonWords # {}
    \/ AddrWords(msg.from_email) \cap NewsAddrWords # {}

is_security_alert(msg) == Range(msg.subject) \cap SecurityWords # {}

is_financial(msg) ==
    \/ Range(msg.reason) \cap FinReasonWords # {}
    \/ Range(msg.subject) \cap FinSubjWords # {}

AutoBuckets == {"notifications_over_7d", "receipts_over_90d", "security_over_30d",
                "newsletters_over_14d"}
ReviewBucket == "older_than_12mo"
BucketNames == AutoBuckets \cup {ReviewBucket}

\* The mutant of decay_candidate: financial records are not skipped.
decay_candidate_financial(msg) ==
    /\ msg.category \notin KEEP_CATEGORIES
    /\ msg.date # NoDate

\* The loop over `remaining`, lines 1158-1169: whether the message reaches
\* the bucket tests at all.
decay_candidate(msg) ==
    /\ msg.category \notin KEEP_CATEGORIES
    /\ msg.date # NoDate
    /\ ~is_financial(msg)

\* The if/elif chain of lines 1174-1181: the one auto-archive bucket of a
\* candidate, or "none".
decay_bucket(msg, clock) ==
    LET days == days_old(msg.date, clock)
    IN IF is_notification_like(msg) /\ days > NotificationDays
       THEN "notifications_over_7d"
       ELSE IF is_receipt_like(msg) /\ days > ReceiptDays /\ ~is_financial(msg)
       THEN "receipts_over_90d"
       ELSE IF is_security_alert(msg) /\ days > SecurityDays
       THEN "security_over_30d"
       ELSE IF is_newsletter_like(msg) /\ days > NewsletterDays
       THEN "newsletters_over_14d"
       ELSE "none"

\* The mutant of in_bucket: four separate tests in place of the if/elif
\* chain, so a message can enter several auto-archive buckets.
in_bucket_no_elif(msg, clock, bucket) ==
    /\ decay_candidate(msg)
    /\ LET days == days_old(msg.date, clock)
       IN CASE bucket = "notifications_over_7d" ->
                   is_notification_like(msg) /\ days > NotificationDays
            [] bucket = "receipts_over_90d" ->
                   is_receipt_like(msg) /\ days > ReceiptDays
            [] bucket = "security_over_30d" ->
                   is_security_alert(msg) /\ days > SecurityDays
            [] bucket = "newsletters_over_14d" ->
                   is_newsletter_like(msg) /\ days > NewsletterDays
            [] OTHER -> days > ReviewDays

\* Whether the loop appends the message to the bucket.
in_bucket(msg, clock, bucket) ==
    /\ decay_candidate(msg)
    /\ IF bucket = ReviewBucket
       THEN days_old(msg.date, clock) > ReviewDays
       ELSE decay_bucket(msg, clock) = bucket

RECURSIVE ids_where(_, _, _)
\* The msg_ids a bucket's list holds, in the order of `remaining`.
ids_where(msgs, clock, bucket) ==
    IF msgs = <<>> THEN <<>>
    ELSE (IF in_bucket(Head(msgs), clock, bucket) THEN <<Head(msgs).msg_id>> ELSE <<>>)
         \o ids_where(Tail(msgs), clock, bucket)

\* time_decay after the loop of lines 1158-1184
time_decay_of(msgs, clock) == [b \in BucketNames |-> ids_where(msgs, clock, b)]

\* The mutant of archived_buckets: the review bucket is archived too.
archived_buckets_all == BucketNames

\* Lines 1240-1244: every bucket but older_than_12mo feeds td_ids.
archived_buckets == BucketNames \ {ReviewBucket}

RECURSIVE sender_order(_, _)
\* The keys of sender_groups, in the order of first appearance.
sender_order(msgs, seen) ==
    IF msgs = <<>> THEN <<>>
    ELSE IF Head(msgs).from_email \in seen THEN sender_order(Tail(msgs), seen)
         ELSE <<Head(msgs).from_email>>
              \o sender_order(Tail(msgs), seen \cup {Head(msgs).from_email})

RECURSIVE insert_by_date(_, _)
\* One step of the stable sort of line 1196: m goes after every record
\* whose date is not later.
insert_by_date(sorted, m) ==
    IF sorted = <<>> THEN <<m>>
    ELSE IF Head(sorted).date <= m.date
         THEN <<Head(sorted)>> \o insert_by_date(Tail(sorted), m)
         ELSE <<m>> \o sorted

RECURSIVE sort_by_date(_, _)
sort_by_date(msgs, sorted) ==
    IF msgs = <<>> THEN sorted
    ELSE sort_by_date(Tail(msgs), insert_by_date(sorted, Head(msgs)))

\* Lines 1204-1207: the similarity test of two records of a window.
similar(mi, mj) ==
    LET subj_i == normalise_subject(mi.subject)
        subj_j == normalise_subject(mj.subject)
    IN \/ first_n_words(subj_i, PrefixWords) = first_n_words(subj_j, PrefixWords)
       \/ jaccard_similar(subj_i, subj_j)

RECURSIVE window_burst(_, _, _, _)
\* The inner loop of lines 1201-1210: the records after dated[i] are taken
\* while they lie within 24 hours of it; the similar ones join the burst.
window_burst(dated, i, j, burst) ==
    IF j > Len(dated) THEN burst
    ELSE IF dated[j].date - dated[i].date <= BurstHours
         THEN window_burst(dated, i, j + 1,
                           IF similar(dated[i], dated[j]) THEN Append(burst, dated[j])
                           ELSE burst)
         ELSE burst

\* The mutant of is_burst: a burst needs more than five messages.
is_burst_strict(burst) == Len(burst) > BurstSize

\* Line 1212: if len(burst) >= 5
is_burst(burst) == Len(burst) >= BurstSize

\* Lines 1214-1229: the group a burst is reported as.
burst_group(sender, burst) ==
    [group_key |-> <<sender, first_n_words(burst[1].subject, PrefixWords)>>,
     sender |-> sender,
     pattern |-> first_n_words(burst[1].subject, PrefixWords),
     total_in_burst |-> Len(burst),
     keep_msg_id |-> burst[Len(burst)].msg_id,
     archive_msg_ids |-> [k \in 1..(Len(burst) - 1) |-> burst[k].msg_id]]

RECURSIVE sender_bursts(_, _, _, _)
\* The loop over i of lines 1199-1229 for one sender.
sender_bursts(sender, dated, i, groups) ==
    IF i > Len(dated) THEN groups
    ELSE LET burst == window_burst(dated, i, i + 1, <<dated[i]>>)
             g == burst_group(sender, burst)
             existing_keys == {groups[k].group_key : k \in 1..Len(groups)}
         IN sender_bursts(sender, dated, i + 1,
                          IF is_burst(burst) /\ g.group_key \notin existing_keys
                          THEN Append(groups, g)
                          ELSE groups)

RECURSIVE dedup_groups_of(_, _, _)
\* The loop over sender_groups of lines 1189-1229.
dedup_groups_of(senders, msgs, groups) ==
    IF senders = <<>> THEN groups
    ELSE LET mine == SelectSeq(msgs, LAMBDA m : m.from_email = Head(senders))
             dated == sort_by_date(SelectSeq(mine, LAMBDA m : m.date # NoDate), <<>>)
         IN dedup_groups_of(Tail(senders), msgs,
                            IF Len(mine) < BurstSize THEN groups
                            ELSE sender_bursts(Head(senders), dated, 1, groups))

\* The mutant of collect_archive_ids: the classification is left out.
collect_archive_ids_unclassified(already_archive, time_decay, groups) ==
    UNION {Range(time_decay[b]) : b \in archived_buckets}
        \cup UNION {Range(groups[k].archive_msg_ids) : k \in 1..Len(groups)}

\* Lines 1231-1251: archive_ids, from the classification, from the time
\* decay (older_than_12mo is flagged for review only) and from the dedup.
collect_archive_ids(already_archive, time_decay, groups) ==
    LET td_ids == UNION {Range(time_decay[b]) : b \in archived_buckets}
        dedup_ids == UNION {Range(groups[k].archive_msg_ids) : k \in 1..Len(groups)}
    IN {already_archive[k].msg_id : k \in 1..Len(already_archive)}
           \cup td_ids \cup dedup_ids

NoReport ==
    [generated |-> FALSE,
     time_decay |-> [b \in BucketNames |-> <<>>],
     dedup_groups |-> <<>>,
     archive_msg_ids |-> {},
     keep_msg_ids |-> {}]

\* phase2_analyse from the loaded records to the report (the sender
\* patterns, which feed nothing else, are left out).
phase2_analyse(msgs, clock) ==
    LET already_archive == SelectSeq(msgs, LAMBDA m : m.category = "archive")
        rest == SelectSeq(msgs, LAMBDA m : m.category # "archive")
        time_decay == time_decay_of(rest, clock)
        groups == dedup_groups_of(sender_order(rest, {}), rest, <<>>)
        archive_ids == collect_archive_ids(already_archive, time_decay, groups)
        all_ids == {msgs[k].msg_id : k \in 1..Len(msgs)}
    IN [generated |-> TRUE,
        time_decay |-> time_decay,
        dedup_groups |-> groups,
        archive_msg_ids |-> archive_ids,
        keep_msg_ids |-> all_ids \ archive_ids]

(***************************************************************************)
(* The inputs of the refinement engine.  Two families of classified        *)
(* records are drawn: short lists whose records range over every content   *)
(* kind, category and age around the thresholds, and lists of one          *)
(* sender's messages around one day, long enough to hold a burst.  The     *)
(* subjects are ones in which a keyword occurs exactly when it is one of   *)
(* the words.                                                              *)
(***************************************************************************)
Clocks == {400 * HoursPerDay}

ContentKinds ==
    {[from_email |-> "a@x.org", subject |-> <<"hello">>, reason |-> <<>>],
     [from_email |-> "noreply@x.org", subject |-> <<"hello">>, reason |-> <<>>],
     [from_email |-> "a@x.org", subject |-> <<"order", "shipped">>, reason |-> <<>>],
     [from_email |-> "a@x.org", subject |-> <<"new", "login">>, reason |-> <<>>],
     [from_email |-> "a@x.org", subject |-> <<"weekly", "news">>, reason |-> <<>>],
     [from_email |-> "a@x.org", subject |-> <<"bank", "statement">>, reason |-> <<>>],
     [from_email |-> "a@x.org", subject |-> <<"order", "shipped">>, reason |-> <<"invoice">>],
     [from_email |-> "a@x.org", subject |-> <<"digest">>, reason |-> <<>>]}

Categories == {"archive", "reference", "urgent", "action_needed"}

\* Ages in days on both sides of each threshold.
AgeDays == {7, 8, 15, 31, 91, 365, 366}

DatesAt(clock) == {NoDate} \cup {clock - a * HoursPerDay : a \in AgeDays}

Record(id, kind, category, date) ==
    [msg_id |-> id, from_email |-> kind.from_email, subject |-> kind.subject,
     reason |-> kind.reason, category |-> category, date |-> date]

\* A short list: each record of any kind, category and age.
DecayChoices(clock) == [1..NumDecayMsgs -> ContentKinds \X Categories \X DatesAt(clock)]

DecayList(c) == [k \in 1..NumDecayMsgs |-> Record(k, c[k][1], c[k][2], c[k][3])]

\* What a day's messages are about, and when the day was: a year ago or
\* three days ago.
BurstScenes(clock) ==
    {[topic |-> <<"hello">>, base |-> clock - 3 * HoursPerDay],
     [topic |-> <<"hello">>, base |-> 0],
     [topic |-> <<"update", "ready">>, base |-> 0]}
\* The messages at odd positions and those at even positions are each the
\* topic itself or replies to it.
BurstPrefixes == {<<>>, <<"re:">>}
\* Hours after the first message of the day: the last one is 24 hours after
\* the second and more than 24 hours after the first.
BurstOffsets == {0, 2, 26}
\* One message of the day, in the middle, may be about something else.
OddSubject == <<"lunch", "friday">>
OddPositions == {0, 3}
\* One message (or none, 0) may be 'urgent' and the newest may be 'archive';
\* the others are 'reference'.
BurstSpecials(n) == [urgent : 0..n, archive : {0, n}]
\* The file lists the day oldest first or newest first.
BurstOrders == {"oldest_first", "newest_first"}

\* The hours of the day's n messages, oldest first.
BurstHourChoices(n) ==
    {f \in [1..n -> BurstOffsets] : \A k \in 1..(n - 1) : f[k] <= f[k + 1]}

BurstKind(subject) == [from_email |-> "a@x.org", subject |-> subject, reason |-> <<>>]

\* The day's messages, oldest first.
BurstDay(hours, prefixes, scene, odd, special) ==
    [k \in 1..Len(hours) |->
        Record(k,
               BurstKind(IF k = odd THEN OddSubject
                         ELSE prefixes[(k % 2) + 1] \o scene.topic),
               IF k = special.archive THEN "archive"
               ELSE IF k = special.urgent THEN "urgent" ELSE "reference",
               scene.base + hours[k])]

Reverse(s) == [k \in 1..Len(s) |-> s[Len(s) + 1 - k]]

BurstList(day, order) == IF order = "oldest_first" THEN day ELSE Reverse(day)

AnalyseInit ==
    \E clock \in Clocks :
        /\ now = clock
        /\ report = NoReport
        /\ \/ \E c \in DecayChoices(clock) : messages = DecayList(c)
           \/ \E n \in BurstSize..NumBurstMsgs :
                \E hours \in BurstHourChoices(n), prefixes \in [1..2 -> BurstPrefixes],
                   scene \in BurstScenes(clock), odd \in OddPositions,
                   special \in BurstSpecials(n), order \in BurstOrders :
                    messages = BurstList(BurstDay(hours, prefixes, scene, odd, special), order)

AnalyseIdle ==
    /\ messages = <<>>
    /\ now = 0
    /\ report = NoReport

\* --phase2-analyse: the report is written once per run.
Phase2Analyse ==
    /\ ~report.generated
    /\ report' = phase2_analyse(messages, now)
    /\ UNCHANGED <<messages, now>>
    /\ UNCHANGED nonAnalyseVars

AnalyseNext == Phase2Analyse

(***************************************************************************)
(* The pipeline across sessions: pass1 and pass2 are separate processes,   *)
(* each with its own IMAP session, that hand their results on through the  *)
(* files of the output directory.  Between two sessions INBOX changes:     *)
(* mail is delivered, and messages are expunged (by the archive command or *)
(* by another client).  A message's identity is its UID; its sequence      *)
(* number is its position in INBOX at the time of asking.                  *)
(***************************************************************************)
ArtifactNames == {"checkpoint_metadata.json", "pass1_summary.json", "all_messages.json",
                  "archive_rules.json", "checkpoint_bodies.json", "pass2_remaining.json",
                  "pass2_classification.json"}

\* A file written in full.
WrittenFile(data) == [exists |-> TRUE, data |-> data, complete |-> TRUE]

\* mail.search(None, "ALL"): the sequence numbers 1..n of a mailbox of n messages
search_all(box) == [k \in 1..Len(box) |-> k]

\* The record fetch_metadata builds from the response for sequence number
\* seq: the identifier is the sequence number, the header fields are those
\* of the message that is at this position now.
metadata_record(box, seq) == [msg_id |-> seq, header |-> <<"hdr", box[seq]>>]

\* results[seq_num] = extract_plain_text(item[1], max_chars)
body_record(box, seq) == [msg_id |-> seq, preview |-> <<"txt", box[seq]>>]

\* The fetch items of the three FETCH commands.
MetadataItem == "(FLAGS BODY.PEEK[HEADER.FIELDS (FROM SUBJECT DATE)])"
BodyItem == "(BODY.PEEK[TEXT])"
\* The mutant of RetryItem: the retry fetches without PEEK.
RetryItem_no_peek == "(BODY[TEXT])"
\* The single fetch of the timeout retry path.
RetryItem == "(BODY.PEEK[TEXT])"

PeekItems == {"(FLAGS BODY.PEEK[HEADER.FIELDS (FROM SUBJECT DATE)])", "(BODY.PEEK[TEXT])"}

\* The server: a FETCH of body content sets \Seen on the messages it
\* answers for, unless the mailbox is selected read-only or the item is a
\* PEEK item.
fetch_effect(unseen, readonly, item, uids) ==
    IF readonly \/ item \in PeekItems THEN unseen ELSE unseen \ uids

\* fetch_metadata run for nbatches batches of its loop: the checkpoint's
\* records come first as they are, then one record per remaining identifier.
fetch_metadata(box, cp, nbatches) ==
    LET ids == search_all(box)
        loaded == IF cp.ok THEN cp.data ELSE <<>>
        rem == remaining_ids(ids, loaded)
        batch == Slice(rem, 0, nbatches * MetaBatchSize)
    IN [enumerated |-> ids,
        fetched |-> batch,
        messages |-> IF ids = <<>> THEN <<>>
                     ELSE loaded \o [k \in 1..Len(batch) |-> metadata_record(box, batch[k])]]

\* The number of batches fetch_metadata's loop has to run.
batches_left(box, cp) ==
    LET rem == remaining_ids(search_all(box), IF cp.ok THEN cp.data ELSE <<>>)
    IN (Len(rem) + MetaBatchSize - 1) \div MetaBatchSize

\* The outcomes of fetch_bodies_batch's FETCH commands: every batch answered,
\* every batch timed out and retried singly, every batch failed otherwise.
FetchPaths == {"ok", "timeout", "error"}

\* The number of batches fetch_bodies_batch's loop has to run.
body_batches_left(ids, cp) ==
    LET todo == IF cp.ok THEN remaining_ids(ids, cp.data) ELSE ids
    IN (Len(todo) + BodyBatchSize - 1) \div BodyBatchSize

\* fetch_bodies_batch run for nbatches batches of its loop: the checkpoint's
\* bodies are taken as they are and their identifiers dropped from the work
\* list; the server answers for the sequence numbers that exist.
fetch_bodies_batch(box, ids, cp, nbatches, path, failed) ==
    LET loaded == IF cp.ok THEN cp.data ELSE <<>>
        todo == Slice(IF cp.ok THEN remaining_ids(ids, loaded) ELSE ids,
                      0, nbatches * BodyBatchSize)
        asked == IF path = "ok" THEN todo
                 ELSE IF path = "timeout" THEN SelectSeqBy(todo, failed)
                 ELSE <<>>
        answered == SelectSeq(asked, LAMBDA id : id <= Len(box))
    IN [answered |-> answered,
        items |-> IF todo = <<>> THEN {}
                  ELSE IF path = "timeout"
                  THEN {[item |-> BodyItem, retry |-> FALSE],
                        [item |-> RetryItem, retry |-> TRUE]}
                  ELSE {[item |-> BodyItem, retry |-> FALSE]},
        bodies |-> loaded \o [k \in 1..Len(answered) |-> body_record(box, answered[k])]]

\* bodies.get(msg["msg_id"], "")
body_preview(bodies, id) ==
    IF id \in fetched_ids(bodies)
    THEN (CHOOSE b \in Range(bodies) : b.msg_id = id).preview
    ELSE ""

\* The mutant of detect_phase: the test of the bodies checkpoint is inverted.
detect_phase_inverted(arts) ==
    IF arts["pass2_classification.json"].exists THEN "done"
    ELSE IF arts["pass2_remaining.json"].exists THEN "p2-done"
    ELSE IF arts["archive_rules.json"].exists
         THEN IF arts["checkpoint_bodies.json"].exists THEN "p2-pending" ELSE "p2-fetch"
    ELSE IF arts["pass1_summary.json"].exists THEN "p1-done"
    ELSE IF arts["checkpoint_metadata.json"].exists THEN "p1-fetch"
    ELSE "idle"

\* _detect_phase
detect_phase(arts) ==
    IF arts["pass2_classification.json"].exists THEN "done"
    ELSE IF arts["pass2_remaining.json"].exists THEN "p2-done"
    ELSE IF arts["archive_rules.json"].exists
         THEN IF arts["checkpoint_bodies.json"].exists THEN "p2-fetch" ELSE "p2-pending"
    ELSE IF arts["pass1_summary.json"].exists THEN "p1-done"
    ELSE IF arts["checkpoint_metadata.json"].exists THEN "p1-fetch"
    ELSE "idle"

\* _count_checkpoint_metadata / _count_checkpoint_bodies: 0 for a file that
\* is absent or does not parse
count_checkpoint(f) == Len(load_checkpoint(f).data)

\* The mutant of monitor_tick: an unreadable checkpoint is removed.
monitor_tick_cleaning(arts) ==
    [lines |-> <<detect_phase(arts)>>,
     files |-> [n \in ArtifactNames |->
                  IF n = "checkpoint_metadata.json" THEN Absent ELSE arts[n]],
     connects |-> 0]

\* One pass of monitor_command's loop: the lines shown, the files after it
\* and the connections it opened.
monitor_tick(arts) ==
    LET ph == detect_phase(arts)
    IN [lines |-> IF ph = "p1-fetch"
                  THEN <<ph, count_checkpoint(arts["checkpoint_metadata.json"])>>
                  ELSE IF ph = "p2-fetch"
                  THEN <<ph, count_checkpoint(arts["checkpoint_bodies.json"])>>
                  ELSE <<ph>>,
        files |-> arts,
        connects |-> 0]

\* No rate line: the account is not in the body fetch or no remaining count
\* is known.
NothingShown == [sampled |-> FALSE, rate |-> <<>>, eta |-> -1, total |-> 0, fetched |-> 0]

NoCommand == [name |-> "none", connects |-> 0, fetches |-> {}, enumerated |-> <<>>,
              messages |-> <<>>, lines |-> <<>>]

SessionInit ==
    /\ mbox = [k \in 1..NumMsgs |-> k]
    /\ unread \in {{}, 1..NumMsgs}
    /\ uidnext = NumMsgs + 1
    /\ artifacts = [n \in ArtifactNames |-> Absent]
    /\ last = NoCommand
    /\ before = [mbox |-> mbox, unread |-> unread, artifacts |-> artifacts]
    /\ addressed = {}
    /\ sessions = 0
    /\ job = <<>>
    /\ rate_history = <<>>
    /\ mon_time = 0
    /\ rate_line = NothingShown
    /\ changes = 0

SessionIdle ==
    /\ mbox = <<>>
    /\ unread = {}
    /\ uidnext = 1
    /\ artifacts = [n \in ArtifactNames |-> Absent]
    /\ last = NoCommand
    /\ before = [mbox |-> <<>>, unread |-> {}, artifacts |-> artifacts]
    /\ addressed = {}
    /\ sessions = 0
    /\ job = <<>>
    /\ rate_history = <<>>
    /\ mon_time = 0
    /\ rate_line = NothingShown
    /\ changes = 0

Snapshot == [mbox |-> mbox, unread |-> unread, artifacts |-> artifacts]

\* main, command pass1 (lines 1594-1606): fetch_metadata to its end, the
\* summary, and the message list for pass 2.
Pass1 ==
    /\ sessions < MaxSessions
    /\ LET cp == load_checkpoint(artifacts["checkpoint_metadata.json"])
           r == fetch_metadata(mbox, cp, batches_left(mbox, cp))
       IN /\ artifacts' = [artifacts EXCEPT
                 !["checkpoint_metadata.json"] =
                     IF mbox = <<>> \/ r.fetched = <<>> THEN @ ELSE WrittenFile(r.messages),
                 !["pass1_summary.json"] = WrittenFile(<<Len(r.messages)>>),
                 !["all_messages.json"] = WrittenFile(r.messages)]
          /\ unread' = IF mbox = <<>> \/ r.fetched = <<>> THEN unread
                       ELSE fetch_effect(unread, TRUE, MetadataItem,
                                         {mbox[k] : k \in Range(r.fetched)})
          /\ last' = [name |-> "pass1", connects |-> 1,
                      fetches |-> IF mbox = <<>> \/ r.fetched = <<>> THEN {}
                                  ELSE {[readonly |-> TRUE, item |-> MetadataItem, retry |-> FALSE]},
                      enumerated |-> r.enumerated, messages |-> r.messages,
                      lines |-> <<>>]
    /\ before' = Snapshot
    /\ sessions' = sessions + 1
    /\ UNCHANGED <<mbox, uidnext, addressed, changes>>
    /\ UNCHANGED <<job, rate_history, mon_time, rate_line>>
    /\ UNCHANGED nonSessionVars

\* The pass1 process is killed after nbatches batches, each followed by its
\* checkpoint; nothing else is written.
Pass1Killed ==
    /\ sessions < MaxSessions
    /\ LET cp == load_checkpoint(artifacts["checkpoint_metadata.json"])
       IN \E nbatches \in 1..batches_left(mbox, cp) :
            LET r == fetch_metadata(mbox, cp, nbatches)
            IN /\ artifacts' = [artifacts EXCEPT
                      !["checkpoint_metadata.json"] = WrittenFile(r.messages)]
               /\ unread' = fetch_effect(unread, TRUE, MetadataItem,
                                         {mbox[k] : k \in Range(r.fetched)})
               /\ last' = [name |-> "pass1-killed", connects |-> 1,
                           fetches |-> {[readonly |-> TRUE, item |-> MetadataItem, retry |-> FALSE]},
                           enumerated |-> r.enumerated, messages |-> <<>>,
                           lines |-> <<>>]
    /\ before' = Snapshot
    /\ sessions' = sessions + 1
    /\ UNCHANGED <<mbox, uidnext, addressed, changes>>
    /\ UNCHANGED <<job, rate_history, mon_time, rate_line>>
    /\ UNCHANGED nonSessionVars

\* The user writes archive_rules.json after pass 1; here it lists no sender,
\* so that pass 2 looks at every message.
WriteRules ==
    /\ artifacts["pass1_summary.json"].exists
    /\ ~artifacts["archive_rules.json"].exists
    /\ artifacts' = [artifacts EXCEPT !["archive_rules.json"] = WrittenFile(<<>>)]
    /\ last' = [NoCommand EXCEPT !.name = "rules"]
    /\ before' = Snapshot
    /\ UNCHANGED <<mbox, unread, uidnext, addressed, sessions, changes>>
    /\ UNCHANGED <<job, rate_history, mon_time, rate_line>>
    /\ UNCHANGED nonSessionVars

\* main, command pass2 (lines 1608-1630) and pass2_body_analysis: the
\* message list is read back, the bodies are fetched by the msg_id of each
\* record, and pass2_remaining.json is written.
Pass2 ==
    /\ sessions < MaxSessions
    /\ artifacts["archive_rules.json"].exists
    /\ artifacts["all_messages.json"].exists
    /\ LET remaining_msgs == artifacts["all_messages.json"].data
           ids == [k \in 1..Len(remaining_msgs) |-> remaining_msgs[k].msg_id]
           cp == load_checkpoint(artifacts["checkpoint_bodies.json"])
       IN IF remaining_msgs = <<>>
          THEN /\ last' = [NoCommand EXCEPT !.name = "pass2", !.connects = 1]
               /\ UNCHANGED <<artifacts, unread, addressed>>
          ELSE \E path \in FetchPaths :
               \E failed \in IF path = "timeout" THEN {{}, {Head(ids)}, Range(ids)}
                               ELSE {{}} :
                 LET r == fetch_bodies_batch(mbox, ids, cp, body_batches_left(ids, cp),
                                             path, failed)
                 IN /\ artifacts' = [artifacts EXCEPT
                           !["checkpoint_bodies.json"] = WrittenFile(r.bodies),
                           !["pass2_remaining.json"] = WrittenFile(
                               [k \in 1..Len(remaining_msgs) |->
                                   [msg_id |-> remaining_msgs[k].msg_id,
                                    header |-> remaining_msgs[k].header,
                                    body_preview |-> body_preview(r.bodies,
                                                        remaining_msgs[k].msg_id)]])]
                    /\ unread' = IF r.items = {} THEN unread
                                 ELSE IF path = "timeout"
                                 THEN fetch_effect(fetch_effect(unread, TRUE, BodyItem, {}),
                                                   TRUE, RetryItem,
                                                   {mbox[k] : k \in Range(r.answered)})
                                 ELSE fetch_effect(unread, TRUE, BodyItem,
                                                   {mbox[k] : k \in Range(r.answered)})
                    /\ addressed' = addressed \cup
                          {[msg_id |-> m.msg_id, stored |-> m.header[2],
                            denotes |-> mbox[m.msg_id]] :
                             m \in {x \in Range(remaining_msgs) :
                                       x.msg_id \in Range(r.answered)}}
                    /\ last' = [name |-> "pass2", connects |-> 1,
                                fetches |-> {[readonly |-> TRUE, item |-> i.item,
                                              retry |-> i.retry] : i \in r.items},
                                enumerated |-> <<>>, messages |-> <<>>, lines |-> <<>>]
    /\ before' = Snapshot
    /\ sessions' = sessions + 1
    /\ UNCHANGED <<mbox, uidnext, changes>>
    /\ UNCHANGED <<job, rate_history, mon_time, rate_line>>
    /\ UNCHANGED nonSessionVars

\* The pass2 process is killed after nbatches batches, each answered and
\* followed by its checkpoint; pass2_remaining.json is not written.
Pass2Killed ==
    /\ sessions < MaxSessions
    /\ artifacts["archive_rules.json"].exists
    /\ artifacts["all_messages.json"].exists
    /\ LET remaining_msgs == artifacts["all_messages.json"].data
           ids == [k \in 1..Len(remaining_msgs) |-> remaining_msgs[k].msg_id]
           cp == load_checkpoint(artifacts["checkpoint_bodies.json"])
       IN \E nbatches \in 1..body_batches_left(ids, cp) :
            LET r == fetch_bodies_batch(mbox, ids, cp, nbatches, "ok", {})
            IN /\ artifacts' = [artifacts EXCEPT
                      !["checkpoint_bodies.json"] = WrittenFile(r.bodies)]
               /\ unread' = fetch_effect(unread, TRUE, BodyItem,
                                         {mbox[k] : k \in Range(r.answered)})
               /\ addressed' = addressed \cup
                     {[msg_id |-> m.msg_id, stored |-> m.header[2],
                       denotes |-> mbox[m.msg_id]] :
                        m \in {x \in Range(remaining_msgs) :
                                  x.msg_id \in Range(r.answered)}}
               /\ last' = [name |-> "pass2-killed", connects |-> 1,
                           fetches |-> {[readonly |-> TRUE, item |-> i.item,
                                         retry |-> i.retry] : i \in r.items},
                           enumerated |-> <<>>, messages |-> <<>>, lines |-> <<>>]
    /\ before' = Snapshot
    /\ sessions' = sessions + 1
    /\ UNCHANGED <<mbox, uidnext, changes>>
    /\ UNCHANGED <<job, rate_history, mon_time, rate_line>>
    /\ UNCHANGED nonSessionVars

\* monitor_command, one pass of its loop.
MonitorTick ==
    /\ LET t == monitor_tick(artifacts)
       IN /\ artifacts' = t.files
          /\ last' = [NoCommand EXCEPT !.name = "monitor", !.connects = t.connects,
                                       !.lines = t.lines]
    /\ before' = Snapshot
    /\ UNCHANGED <<mbox, unread, uidnext, addressed, sessions, changes>>
    /\ UNCHANGED <<job, rate_history, mon_time, rate_line>>
    /\ UNCHANGED nonSessionVars

\* Between sessions a message is delivered to INBOX; it gets the next UID.
Deliver ==
    /\ changes < MaxChanges
    /\ Len(mbox) < NumMsgs
    /\ mbox' = Append(mbox, uidnext)
    /\ unread' = unread \cup {uidnext}
    /\ uidnext' = uidnext + 1
    /\ changes' = changes + 1
    /\ last' = [NoCommand EXCEPT !.name = "deliver"]
    /\ before' = Snapshot
    /\ UNCHANGED <<artifacts, addressed, sessions>>
    /\ UNCHANGED <<job, rate_history, mon_time, rate_line>>
    /\ UNCHANGED nonSessionVars

\* Between sessions a message is expunged from INBOX, by an archive run or
\* by another client; the messages behind it move up by one sequence number.
Expunged ==
    /\ changes < MaxChanges
    /\ \E k \in 1..Len(mbox) :
          /\ mbox' = SelectSeq(mbox, LAMBDA u : u # mbox[k])
          /\ unread' = unread \ {mbox[k]}
    /\ changes' = changes + 1
    /\ last' = [NoCommand EXCEPT !.name = "expunged"]
    /\ before' = Snapshot
    /\ UNCHANGED <<uidnext, artifacts, addressed, sessions>>
    /\ UNCHANGED <<job, rate_history, mon_time, rate_line>>
    /\ UNCHANGED nonSessionVars

SessionNext ==
    \/ Pass1
    \/ Pass1Killed
    \/ WriteRules
    \/ Pass2
    \/ Pass2Killed
    \/ MonitorTick
    \/ Deliver
    \/ Expunged

(***************************************************************************)
(* The specifications, one per subsystem.                                  *)
(***************************************************************************)
InitFetch == FetchInit /\ ArchiveIdle /\ AnalyseIdle /\ SessionIdle
SpecFetch == InitFetch /\ [][FetchNext]_vars

InitArchive == ArchiveInit /\ FetchIdle /\ AnalyseIdle /\ SessionIdle
SpecArchive == InitArchive /\ [][ArchiveNext]_vars

InitAnalyse == AnalyseInit /\ FetchIdle /\ ArchiveIdle /\ SessionIdle
SpecAnalyse == InitAnalyse /\ [][AnalyseNext]_vars

InitRearchive == RearchiveInit /\ FetchIdle /\ AnalyseIdle /\ SessionIdle
SpecRearchive == InitRearchive /\ [][RearchiveNext]_vars

InitInterrupt == RearchiveInit /\ FetchIdle /\ AnalyseIdle /\ SessionIdle
SpecInterrupt == InitInterrupt /\ [][InterruptNext]_vars

InitSessions == SessionInit /\ FetchIdle /\ ArchiveIdle /\ AnalyseIdle
SpecSessions == InitSessions /\ [][SessionNext]_vars

(***************************************************************************)
(* Properties of the fetcher and the checkpoint store (SpecFetch).         *)
(***************************************************************************)

\* C1: a run that completes after any number of interruptions, at any
\* step, returns the same set of records (keyed by identifier) as one
\* uninterrupted run on the same mailbox, provided the server answered every
\* fetch of the completing run.
C1_Resumability ==
    (fpc = "done" /\ lost = {}) =>
        Range(returned) = Range(uninterrupted_run(phase, msg_ids, <<>>, malformed))

\* A run killed once, resumed from a partial checkpoint and completed.
C1_Witness ==
    /\ fpc = "done"
    /\ crashes = 1
    /\ runs = 2
    /\ lost = {}
    /\ Len(remaining) > 0
    /\ Len(remaining) < NumMsgs
    /\ Len(returned) = NumMsgs

\* C2: the file at a checkpoint path is absent, or is a complete document
\* holding a snapshot that one save_checkpoint call wrote in full.
C2_CheckpointAtomic ==
    \A ph \in {"metadata", "bodies"} :
        LET f == files[CheckpointPath(ph)]
        IN f.exists => (f.complete /\ f.data \in snapshots[CheckpointPath(ph)])

\* The process was killed inside save_checkpoint: a partly written temporary
\* file lies beside the complete checkpoint of the batch before.
C2_Witness ==
    /\ fpc = "idle"
    /\ crashes > 0
    /\ files[CheckpointPath(phase)].exists
    /\ files[with_suffix_tmp(CheckpointPath(phase))].exists
    /\ ~files[with_suffix_tmp(CheckpointPath(phase))].complete
    /\ Len(files[with_suffix_tmp(CheckpointPath(phase))].data) > 0

(***************************************************************************)
(* Properties of the archiver (SpecArchive).                               *)
(***************************************************************************)
StoreOK(e) == e.op = "store" /\ e.typ = "OK"

\* C3: in the folder-based backend a UID STORE that sets \Deleted on a
\* batch follows a UID COPY of that batch answered OK, and no identifier of
\* a batch whose copy failed is flagged.
C3_FlagOnlyAfterCopy ==
    ~gmail =>
        /\ \A p \in 1..Len(oplog) :
              StoreOK(oplog[p]) =>
                  \E q \in 1..(p - 1) :
                      /\ oplog[q].op = "copy"
                      /\ oplog[q].typ = "OK"
                      /\ oplog[p].uids \subseteq oplog[q].uids
        /\ \A p, q \in 1..Len(oplog) :
              (StoreOK(oplog[p]) /\ oplog[q].op = "copy" /\ oplog[q].typ # "OK")
                  => oplog[p].uids \cap oplog[q].uids = {}

\* A folder-based run in which one batch was copied and flagged and the
\* copy of another failed.
C3_Witness ==
    /\ ~gmail
    /\ apc = "done"
    /\ \E p \in 1..Len(oplog) : StoreOK(oplog[p])
    /\ \E q \in 1..Len(oplog) : oplog[q].op = "copy" /\ oplog[q].typ = "NO"

\* C4: a dry run issues no mutating command (no read-write select, folder
\* create, copy, flag store or expunge) and leaves the mailbox as it was.
C4_DryRunNoMutation ==
    dry_run =>
        /\ oplog = <<>>
        /\ inbox = inbox0
        /\ holding = {}
        /\ allmail = (IF gmail THEN UidsOf(inbox0) \cup {UidOf(0)} ELSE {})

\* A dry run that matched messages and returned.
C4_Witness ==
    /\ dry_run
    /\ apc = "done"
    /\ matched_uids # <<>>
    /\ ret = 0

\* C5: phase2_archive flags only messages whose identity is in the
\* report's archive_msg_ids, and every message of keep_msg_ids stays in INBOX.
C5_FlagsOnlyArchiveIds ==
    cmd = "phase2-archive" =>
        /\ \A p \in 1..Len(oplog) :
              StoreOK(oplog[p]) =>
                  \A u \in oplog[p].uids : MsgOfUid(inbox0, u).mid \in target
        /\ \A m \in Range(inbox0) : m.mid \notin target => m.uid \in UidsOf(inbox)

RECURSIVE FlaggedCount(_)
\* The sum of the sizes of the batches whose flag store was answered OK.
FlaggedCount(log) ==
    IF log = <<>> THEN 0
    ELSE (IF StoreOK(Head(log)) THEN Cardinality(Head(log).uids) ELSE 0)
         + FlaggedCount(Tail(log))

\* C6: on Gmail, when the All Mail count after the expunge is below the
\* snapshot, the warning is printed and the run returns the number flagged.
C6_WarnAndCount ==
    (gmail /\ apc = "done" /\ post_allmail_count < pre_allmail_count) =>
        (warned /\ ret = FlaggedCount(oplog))

\* A Gmail run of two batches, one refused, that lost a message from All
\* Mail, warned and returned the size of the other batch.
C6_Witness ==
    /\ gmail
    /\ apc = "done"
    /\ post_allmail_count < pre_allmail_count
    /\ warned
    /\ ret > 0
    /\ ret < Len(matched_uids)

CreateRefused(name) ==
    \E p \in 1..Len(oplog) :
        oplog[p].op = "create" /\ oplog[p].arg = name /\ oplog[p].typ = "NO"

\* C7: in the folder-based backend, when no folder was found and both
\* creates were refused, the run has returned 0 and has issued no read-write
\* select, copy, flag store or expunge.
C7_NoFolderNoMutation ==
    (~gmail /\ CreateRefused("Archive") /\ CreateRefused("INBOX.Archive")) =>
        /\ apc = "done"
        /\ ret = 0
        /\ \A p \in 1..Len(oplog) : oplog[p].op = "create"
        /\ inbox = inbox0
        /\ holding = {}

\* An executing run with matches that found no folder and could create none.
C7_Witness ==
    /\ ~gmail
    /\ ~dry_run
    /\ matched_uids # <<>>
    /\ CreateRefused("Archive")
    /\ CreateRefused("INBOX.Archive")
    /\ apc = "done"

(***************************************************************************)
(* Properties of the refinement engine (SpecAnalyse).                      *)
(***************************************************************************)
MessageIds == {messages[k].msg_id : k \in 1..Len(messages)}

\* The ids the report lists in a bucket.
Listed(bucket) == Range(report.time_decay[bucket])

InFourBuckets(id) ==
    \/ id \in Listed("notifications_over_7d")
    \/ id \in Listed("receipts_over_90d")
    \/ id \in Listed("security_over_30d")
    \/ id \in Listed("newsletters_over_14d")

\* The ids the report's burst groups mark for archive.
BurstArchived == UNION {Range(report.dedup_groups[g].archive_msg_ids) :
                            g \in 1..Len(report.dedup_groups)}
BurstKeepers == {report.dedup_groups[g].keep_msg_id : g \in 1..Len(report.dedup_groups)}

\* Older than 365 days, the age counted in whole days.
OlderThanAYear(m) == m.date # NoDate /\ days_old(m.date, now) > 365

Unmatched(m) ==
    /\ OlderThanAYear(m)
    /\ ~InFourBuckets(m.msg_id)
    /\ m.msg_id \notin BurstArchived \cup BurstKeepers

\* C8 as stated: every input message older than 365 days that matches none
\* of the four auto-archive decay buckets and is in no burst group is counted
\* in the older_than_12mo review bucket and is in keep_msg_ids, never in
\* archive_msg_ids.
C8_AsStated ==
    report.generated =>
        \A k \in 1..Len(messages) :
            Unmatched(messages[k]) =>
                /\ messages[k].msg_id \in Listed("older_than_12mo")
                /\ messages[k].msg_id \in report.keep_msg_ids
                /\ messages[k].msg_id \notin report.archive_msg_ids

\* C8, amended: every input message older than 365 days (in whole days) that
\* is not classified 'archive', matches none of the four auto-archive decay
\* buckets and is in no burst group is in keep_msg_ids and never in
\* archive_msg_ids; it is counted in the older_than_12mo review bucket
\* exactly when its category is neither urgent nor action_needed and the
\* financial-record heuristic does not hold for it.
C8_ReviewNotArchived ==
    report.generated =>
        \A k \in 1..Len(messages) :
            (Unmatched(messages[k]) /\ messages[k].category # "archive") =>
                /\ messages[k].msg_id \in report.keep_msg_ids
                /\ messages[k].msg_id \notin report.archive_msg_ids
                /\ messages[k].msg_id \in Listed("older_than_12mo")
                       <=> (/\ messages[k].category \notin {"urgent", "action_needed"}
                            /\ ~is_financial(messages[k]))

\* An old message beside a burst it is no part of: reviewed and kept.
C8_Witness ==
    /\ report.generated
    /\ report.dedup_groups # <<>>
    /\ \E k \in 1..Len(messages) :
          /\ Unmatched(messages[k])
          /\ messages[k].category # "archive"
          /\ messages[k].msg_id \in Listed("older_than_12mo")
          /\ messages[k].msg_id \in report.keep_msg_ids

\* C9: archive_msg_ids is exactly the ids of the messages classified
\* 'archive', with the ids in the four decay buckets (not older_than_12mo)
\* and the non-keeper ids of all burst groups; keep_msg_ids is all input ids
\* minus archive_msg_ids, so the two are disjoint and cover the input.
C9_SetArithmetic ==
    report.generated =>
        /\ report.archive_msg_ids =
              {id \in MessageIds :
                  \/ \E k \in 1..Len(messages) :
                        messages[k].msg_id = id /\ messages[k].category = "archive"
                  \/ InFourBuckets(id)}
              \cup BurstArchived
        /\ report.keep_msg_ids = MessageIds \ report.archive_msg_ids
        /\ report.archive_msg_ids \cap report.keep_msg_ids = {}
        /\ report.archive_msg_ids \cup report.keep_msg_ids = MessageIds

\* All three sources feed the archive ids, a message is kept, and the review
\* bucket is not empty.
C9_Witness ==
    /\ report.generated
    /\ \E k \in 1..Len(messages) : messages[k].category = "archive"
    /\ \E id \in MessageIds : InFourBuckets(id)
    /\ BurstArchived # {}
    /\ report.keep_msg_ids # {}
    /\ Listed("older_than_12mo") # {}

\* The input is N >= 5 messages of one sender with identical normalised
\* subjects, all dated within 24 hours of the oldest.
OneBurstInput ==
    /\ Len(messages) >= 5
    /\ \A k \in 1..Len(messages) :
          /\ messages[k].from_email = messages[1].from_email
          /\ normalise_subject(messages[k].subject) = normalise_subject(messages[1].subject)
          /\ messages[k].date # NoDate
    /\ \A j, k \in 1..Len(messages) : messages[k].date - messages[j].date <= 24

\* Exactly the N-1 oldest are marked and exactly one, the newest, is kept.
OldestMarkedNewestKept ==
    /\ Cardinality(report.archive_msg_ids) = Len(messages) - 1
    /\ Cardinality(report.keep_msg_ids) = 1
    /\ \A k \in 1..Len(messages) :
          messages[k].msg_id \in report.keep_msg_ids =>
              \A j \in 1..Len(messages) : messages[j].date <= messages[k].date

\* C10 as stated: for N >= 5 messages from one sender with identical
\* normalised subjects and timestamps all within 24 hours of the oldest,
\* exactly the N-1 oldest are marked for archive and exactly 1, the newest,
\* is kept.
C10_AsStated == (report.generated /\ OneBurstInput) => OldestMarkedNewestKept

\* C10, amended: for N >= 5 messages from one sender with identical
\* normalised subjects and timestamps all within 24 hours of the oldest, none
\* of them classified 'archive' and none in one of the four auto-archive
\* decay buckets, exactly the N-1 oldest are marked for archive and exactly
\* 1, the newest, is kept.
C10_BurstKeepsNewest ==
    (/\ report.generated
     /\ OneBurstInput
     /\ \A k \in 1..Len(messages) :
           messages[k].category # "archive" /\ ~InFourBuckets(messages[k].msg_id))
        => OldestMarkedNewestKept

\* The spec's case: six messages within two hours, replies among them.
C10_Witness ==
    /\ report.generated
    /\ OneBurstInput
    /\ Len(messages) = 6
    /\ \A j, k \in 1..6 : messages[k].date - messages[j].date <= 2
    /\ \E j, k \in 1..6 : messages[j].subject # messages[k].subject
    /\ \A k \in 1..6 :
          messages[k].category # "archive" /\ ~InFourBuckets(messages[k].msg_id)
    /\ report.dedup_groups # <<>>
    /\ OldestMarkedNewestKept

\* C11: a message for which the financial-record heuristic holds is in none
\* of the time-decay buckets, whatever its age, its category and the other
\* heuristics it matches.
C11_FinancialNeverDecays ==
    report.generated =>
        \A k \in 1..Len(messages) :
            is_financial(messages[k]) =>
                /\ ~InFourBuckets(messages[k].msg_id)
                /\ messages[k].msg_id \notin Listed("older_than_12mo")

\* A financial record that is receipt-like, over a year old and not in a
\* keep category has been analysed.
C11_Witness ==
    /\ report.generated
    /\ \E k \in 1..Len(messages) :
          /\ is_financial(messages[k])
          /\ is_receipt_like(messages[k])
          /\ OlderThanAYear(messages[k])
          /\ messages[k].category = "reference"
          /\ messages[k].msg_id \in report.keep_msg_ids

(***************************************************************************)
(* Properties of repeated archive runs (SpecRearchive).                    *)
(***************************************************************************)
\* The messages of a mailbox the target set names: those of the target
\* senders, or those whose identity is in archive_msg_ids.
TargetMessages(box) ==
    IF cmd = "archive"
    THEN {m \in Range(box) : m.from_email \in target}
    ELSE {m \in Range(box) : m.mid \in target}

\* C12: when none of the target set's messages is in INBOX any more,
\* resolution yields zero matched identifiers, and the run that matched
\* nothing returns 0 and has issued no mutating command.
C12_NothingLeftNothingMatched ==
    /\ (apc = "scanned" /\ TargetMessages(inbox) = {}) => matched_uids = <<>>
    /\ (apc = "done" /\ matched_uids = <<>>) => (ret = 0 /\ oplog = <<>>)

(***************************************************************************)
(* Properties of the pipeline across sessions (SpecSessions).              *)
(***************************************************************************)
\* C13: every identifier read back from a persisted artifact and used to
\* address a message on the server still denotes the message it denoted
\* when it was stored: the message pass 2 fetches by a msg_id of
\* all_messages.json is the message whose header that record holds.
C13_PersistedIdStillDenotes ==
    \A a \in addressed : a.denotes = a.stored

\* The UIDs this run's UID STORE commands flagged, the server answering OK.
FlaggedByRun ==
    UNION {oplog[p].uids : p \in {q \in 1..Len(oplog) : StoreOK(oplog[q])}}

HasExpunged == \E p \in 1..Len(oplog) : oplog[p].op = "expunge"

\* The UID of message m resolves in box, and to m.
Resolves(box, m) == \E x \in Range(box) : x.uid = m.uid /\ x.mid = m.mid

\* C14: after the expunge of an archive run, every message that was in
\* INBOX before the run and that the run did not flag is still found under
\* the UID it had, and the UIDs of the messages the run flagged resolve no
\* more.
C14_UidStillResolves ==
    (aruns = 1 /\ HasExpunged) =>
        \A m \in Range(inbox0) :
            IF m.uid \in FlaggedByRun
            THEN m.uid \notin UidsOf(inbox)
            ELSE Resolves(inbox, m)

FetchCommands == {"pass1", "pass1-killed", "pass2", "pass2-killed"}

\* C15: a run of fetch_metadata or of pass2_body_analysis with
\* fetch_bodies_batch selects the mailbox read-only and issues PEEK fetches
\* only, the single fetches of the timeout retry included, and leaves every
\* message of INBOX present and as read or unread as it was.
C15_FetchLeavesMailbox ==
    last.name \in FetchCommands =>
        /\ \A f \in last.fetches : f.readonly /\ f.item \in PeekItems
        /\ mbox = before.mbox
        /\ unread = before.unread

\* pass 2 has fetched bodies of unread messages through the retry path.
C15_Witness ==
    /\ last.name = "pass2"
    /\ \E f \in last.fetches : f.retry
    /\ artifacts["checkpoint_bodies.json"].data # <<>>
    /\ unread # {}

\* C16: fetch_metadata returns exactly one record for each identifier it
\* enumerated in INBOX at the start of the run (every response parses here):
\* none twice, and none for an identifier it did not enumerate, also when it
\* resumed from a checkpoint.
C16_OneRecordPerEnumerated ==
    last.name = "pass1" =>
        /\ fetched_ids(last.messages) = Range(last.enumerated)
        /\ Len(last.messages) = Len(last.enumerated)

\* C17: an archive run keeps the order Scanning, Resolved, then DryRunStop
\* or Flagging, Expunging, SafetyCheck, Done or Warned: nothing is issued
\* before resolution has completed, flags and copies name resolved
\* identifiers only, a dry run issues nothing, the expunge comes after the
\* flagging of every batch and is the last command, and the safety check
\* and its warning come only after the expunge.
C17_StatesInOrder ==
    /\ apc \in {"start", "scanned"} => oplog = <<>>
    /\ \A p \in 1..Len(oplog) :
          oplog[p].op \in {"copy", "store"} => oplog[p].uids \subseteq Range(matched_uids)
    /\ (apc = "done" /\ dry_run) => oplog = <<>>
    /\ \A p \in 1..Len(oplog) :
          oplog[p].op = "expunge" =>
              /\ p = Len(oplog)
              /\ \A u \in Range(matched_uids) :
                    \E q \in 1..(p - 1) :
                        oplog[q].op \in {"copy", "store"} /\ u \in oplog[q].uids
    /\ (apc = "verify" \/ warned) => HasExpunged
    /\ (apc = "done" /\ \E p \in 1..Len(oplog) : oplog[p].op = "select_rw") => HasExpunged

\* A run of several batches has flagged, expunged, checked and warned.
C17_Witness ==
    /\ apc = "done"
    /\ warned
    /\ HasExpunged
    /\ Len(matched_uids) > ArchiveBatchSize
    /\ \E p \in 1..Len(oplog) : oplog[p].op = "store" /\ oplog[p].typ = "NO"

\* C18: a tick of monitor_command opens no IMAP connection, issues no
\* command, and leaves every file of the output directory, and the mailbox,
\* as it was.
C18_MonitorOnlyReads ==
    last.name = "monitor" =>
        /\ last.connects = 0
        /\ last.fetches = {}
        /\ artifacts = before.artifacts
        /\ mbox = before.mbox
        /\ unread = before.unread

\* A tick has counted the bodies of a checkpoint a pass-2 run left behind,
\* next to a metadata checkpoint.
C18_Witness ==
    /\ last.name = "monitor"
    /\ Len(last.lines) = 2
    /\ last.lines[1] = "p2-fetch"
    /\ last.lines[2] > 0
    /\ artifacts["checkpoint_metadata.json"].exists

\* C19: every message an archive run's expunge removes from INBOX is one
\* the run's scan matched and the run flagged with the server's OK, and in
\* the folder-based backend one that was copied to the holding folder, also
\* when INBOX held messages flagged \Deleted before the run.
C19_ExpungeRemovesOnlyArchived ==
    \A p \in 1..Len(oplog) :
        oplog[p].op = "expunge" =>
            /\ oplog[p].uids \subseteq (FlaggedByRun \cap Range(matched_uids))
            /\ ~gmail => oplog[p].uids \subseteq holding

\* C20: the sender-based archive command flags and removes a message only
\* if its sender is in the archive rules or the message itself was
\* classified 'archive'; a message of another category is not removed on
\* account of a second message of its sender.
C20_RemovedOnlyIfListedOrClassified ==
    cmd = "archive" =>
        \A m \in Range(inbox0) :
            (m.uid \in FlaggedByRun /\ HasExpunged /\ m.uid \notin UidsOf(inbox)) =>
                (m.from_email \in rules \/ m.mid \in classified)


\* ---------------------------------------------------------------------
\* C21.  A message whose category is in KEEP_CATEGORIES (urgent,
\* action_needed) never appears in the archive_msg_ids of the report that
\* phase2_analyse produces, whatever its subject, age or bursts.
KeptByCategory ==
  {messages[k].msg_id : k \in {j \in 1..Len(messages) :
                                 messages[j].category \in KEEP_CATEGORIES}}

C21_KeepCategoryNeverArchived ==
  report.generated => KeptByCategory \cap report.archive_msg_ids = {}


\* ---------------------------------------------------------------------
\* C22.  For every burst group that phase2_analyse reports, the group's
\* keeper (its newest message) is in keep_msg_ids and every other member of
\* the group is in archive_msg_ids.
C22_KeeperKeptOthersArchived ==
  report.generated =>
      \A g \in 1..Len(report.dedup_groups) :
          /\ report.dedup_groups[g].keep_msg_id \in report.keep_msg_ids
          /\ Range(report.dedup_groups[g].archive_msg_ids) \subseteq report.archive_msg_ids


\* ---------------------------------------------------------------------
\* C23.  For every sender, every run of at least 5 dated messages whose
\* timestamps lie within 24 hours of the run's first message and whose
\* normalised subjects share that message's 4-word prefix or have word-level
\* Jaccard similarity >= 0.6 with it is reported as a burst with all its
\* messages but the newest marked for archive; and every reported burst is
\* such a run.
ReportSenders == {messages[k].from_email : k \in 1..Len(messages)}

\* The dated messages of a sender among pool, oldest first.
DatedOf(sender, pool) ==
  sort_by_date(SelectSeq(pool, LAMBDA m : m.from_email = sender /\ m.date # NoDate), <<>>)

\* The run that starts at dated[i]: the messages from it on that lie within
\* 24 hours of it and are similar to it.
RunFrom(dated, i) ==
  SelectSeq(SubSeq(dated, i, Len(dated)),
            LAMBDA m : m.date - dated[i].date <= 24 /\ similar(dated[i], m))

IsGroupOf(g, sender, run) ==
  /\ g.sender = sender
  /\ g.keep_msg_id = run[Len(run)].msg_id
  /\ g.archive_msg_ids = [k \in 1..(Len(run) - 1) |-> run[k].msg_id]

RunReported(sender, run) ==
  /\ \E g \in 1..Len(report.dedup_groups) : IsGroupOf(report.dedup_groups[g], sender, run)
  /\ \A k \in 1..(Len(run) - 1) : run[k].msg_id \in report.archive_msg_ids

EveryRunReported ==
  \A s \in ReportSenders :
      LET dated == DatedOf(s, messages)
      IN \A i \in 1..Len(dated) :
             Len(RunFrom(dated, i)) >= 5 => RunReported(s, RunFrom(dated, i))

EveryReportedIsRun ==
  \A g \in 1..Len(report.dedup_groups) :
      \E s \in ReportSenders :
          LET dated == DatedOf(s, messages)
          IN \E i \in 1..Len(dated) :
                 /\ Len(RunFrom(dated, i)) >= 5
                 /\ IsGroupOf(report.dedup_groups[g], s, RunFrom(dated, i))

C23_RunsAreExactlyTheBursts ==
  report.generated => EveryRunReported /\ EveryReportedIsRun


\* ---------------------------------------------------------------------
\* C24.  No two burst groups in one report share the same (sender, prefix)
\* key, so overlapping windows over the same run of messages yield one
\* reported group, not several.
GroupMembers(g) == Range(g.archive_msg_ids) \cup {g.keep_msg_id}

KeysDistinct ==
  \A g, h \in 1..Len(report.dedup_groups) :
      report.dedup_groups[g].group_key = report.dedup_groups[h].group_key => g = h

OneGroupPerRun ==
  \A g, h \in 1..Len(report.dedup_groups) :
      GroupMembers(report.dedup_groups[g]) \cap GroupMembers(report.dedup_groups[h]) # {}
          => g = h

C24_OneGroupPerKeyAndRun ==
  report.generated => KeysDistinct /\ OneGroupPerRun


\* ---------------------------------------------------------------------
\* C25.  phase2_analyse places each message in at most one of the four
\* auto-archive decay buckets, only when its age is strictly above that
\* bucket's threshold and its category is not in the non-expiring set;
\* membership of the 12-month review bucket is decided independently of
\* those four.
BucketThreshold(bucket) ==
  CASE bucket = "notifications_over_7d" -> 7
    [] bucket = "receipts_over_90d" -> 90
    [] bucket = "security_over_30d" -> 30
    [] bucket = "newsletters_over_14d" -> 14

AutoBucketsOf(id) == {b \in AutoBuckets : id \in Listed(b)}

\* What the review bucket asks of a message, the four buckets aside.
ReviewEligible(m) ==
  /\ m.category \notin KEEP_CATEGORIES \cup {"archive"}
  /\ ~is_financial(m)
  /\ OlderThanAYear(m)

C25_OneBucketAboveThreshold ==
  report.generated =>
      \A k \in 1..Len(messages) :
          LET m == messages[k]
          IN /\ Cardinality(AutoBucketsOf(m.msg_id)) <= 1
             /\ \A b \in AutoBucketsOf(m.msg_id) :
                    /\ m.date # NoDate
                    /\ now - m.date > BucketThreshold(b) * 24
                    /\ m.category \notin KEEP_CATEGORIES
             /\ m.msg_id \in Listed(ReviewBucket) <=> ReviewEligible(m)

\* A message that passes two bucket tests (a digest, notification-like and
\* newsletter-like, older than both thresholds) is listed in one bucket,
\* and one message over a year old is listed for review as well.
C25_Witness ==
  /\ report.generated
  /\ \E k \in 1..Len(messages) :
        /\ is_notification_like(messages[k]) /\ is_newsletter_like(messages[k])
        /\ AutoBucketsOf(messages[k].msg_id) = {"notifications_over_7d"}
        /\ messages[k].msg_id \in Listed(ReviewBucket)


\* ---------------------------------------------------------------------
\* C26.  When a copy or flag store returns a non-OK status for a batch, that
\* batch's identifiers are not counted as archived, the batch is not
\* retried, and every later batch is still attempted; the run still
\* proceeds to the expunge and the safety check.
BatchStarts == {b \in 0..(Len(matched_uids) - 1) : b % ArchiveBatchSize = 0}

BatchAt(b) == Range(Slice(matched_uids, b, ArchiveBatchSize))

\* The positions of the log at which a command of the kind names the batch.
Issued(kind, b) == {p \in 1..Len(oplog) : oplog[p].op = kind /\ oplog[p].uids = BatchAt(b)}

Refused(b) ==
  \E p \in Issued("copy", b) \cup Issued("store", b) : oplog[p].typ # "OK"

\* The first command of a batch: the copy with folders, the store on Gmail.
Attempted(b) == IF gmail THEN Issued("store", b) # {} ELSE Issued("copy", b) # {}

RECURSIVE CountedOf(_)
\* The identifiers of the batches that no command refused and whose store
\* has been issued.
CountedOf(starts) ==
  IF starts = {} THEN 0
  ELSE LET b == CHOOSE x \in starts : TRUE
       IN (IF ~Refused(b) /\ Issued("store", b) # {} THEN Cardinality(BatchAt(b)) ELSE 0)
          + CountedOf(starts \ {b})

SomeRefused == \E b \in BatchStarts : Refused(b)

C26_RefusedBatchSkipped ==
  (matched_uids # <<>> /\ apc \in {"batch", "store", "verify", "done"} /\ ~dry_run
       /\ \E p \in 1..Len(oplog) : oplog[p].op = "select_rw") =>
      /\ archived = CountedOf(BatchStarts)
      /\ \A b \in BatchStarts :
            /\ Cardinality(Issued("copy", b)) <= 1
            /\ Cardinality(Issued("store", b)) <= 1
            /\ (\E p \in Issued("copy", b) : oplog[p].typ # "OK") => Issued("store", b) = {}
            /\ (Refused(b) /\ apc \in {"verify", "done"}) =>
                   \A c \in BatchStarts : c > b => Attempted(c)
      /\ (SomeRefused /\ apc = "batch") =>
             (bidx < Len(matched_uids) \/ loop_done(bidx, matched_uids))
      /\ (SomeRefused /\ apc \in {"verify", "done"}) => HasExpunged
      /\ (SomeRefused /\ apc = "done") =>
             (ret = archived /\ post_allmail_count = Cardinality(allmail))

\* A run of two batches that returned: the first batch was refused, the
\* second was flagged and counted, and the expunge and the check followed.
C26_Witness ==
  /\ apc = "done"
  /\ Cardinality(BatchStarts) = 2
  /\ Refused(0)
  /\ ~Refused(ArchiveBatchSize)
  /\ Issued("store", ArchiveBatchSize) # {}
  /\ archived = Cardinality(BatchAt(ArchiveBatchSize))
  /\ HasExpunged
  /\ ret = archived


\* ---------------------------------------------------------------------
\* C27.  In every non-dry run that resolves at least one identifier and
\* passes its backend precondition, exactly one expunge is issued, after the
\* last batch's flag store, whatever the number of batches and however many
\* of them failed; no expunge is issued in a dry run, when nothing matched,
\* or when the holding folder is unavailable.
Expunges == {p \in 1..Len(oplog) : oplog[p].op = "expunge"}

\* The run went past the three early returns.
PastEarlyReturns ==
  /\ ~dry_run
  /\ matched_uids # <<>>
  /\ gmail \/ archive_folder # NoFolder

C27_ExactlyOneExpunge ==
  /\ Cardinality(Expunges) <= 1
  /\ (apc = "done" /\ PastEarlyReturns) => Cardinality(Expunges) = 1
  /\ \A p \in Expunges :
        /\ \A q \in 1..Len(oplog) : oplog[q].op \in {"copy", "store"} => q < p
        /\ \A b \in BatchStarts : Attempted(b)
        /\ \A b \in BatchStarts :
              (~gmail /\ \E q \in Issued("copy", b) : oplog[q].typ = "OK")
                  => Issued("store", b) # {}
  /\ (dry_run \/ (apc # "start" /\ matched_uids = <<>>)
          \/ (~gmail /\ apc = "done" /\ archive_folder = NoFolder))
        => Expunges = {}

\* A run of two batches, both refused, has returned after its one expunge.
C27_Witness ==
  /\ apc = "done"
  /\ PastEarlyReturns
  /\ Cardinality(BatchStarts) = 2
  /\ \A b \in BatchStarts : Refused(b)
  /\ Cardinality(Expunges) = 1
  /\ archived = 0


\* ---------------------------------------------------------------------
\* C28.  Every copy and flag-store command the archiver issues addresses
\* messages by UIDs that the same run's scan obtained from its own
\* enumeration of INBOX; no mutating command addresses a message by a
\* sequence number or by an identifier taken from a persisted artifact.
Addressed(p) == IF oplog[p].op \in {"copy", "store"} THEN oplog[p].uids ELSE {}

\* The UIDs INBOX held when this run scanned it: those it holds now and
\* those this run's expunge removed.
EnumeratedByRun == UidsOf(inbox) \cup UNION {oplog[p].uids : p \in Expunges}

\* Sequence numbers of INBOX, and the msg_ids of the pass-2 data and of the
\* analysis file (sequence numbers of an earlier session).
SequenceNumbers == 1..Len(inbox0)

C28_AddressedByScannedUid ==
  /\ Range(matched_uids) \subseteq EnumeratedByRun
  /\ \A p \in 1..Len(oplog) :
        /\ Addressed(p) \subseteq Range(matched_uids)
        /\ Addressed(p) \cap SequenceNumbers = {}
        /\ oplog[p].op \in {"copy", "store"} => Addressed(p) # {}

\* A second run of phase2-archive has flagged a message under the UID its
\* own scan returned, a number that is neither the message's sequence
\* number in INBOX nor its msg_id in the analysis file.
C28_Witness ==
  /\ cmd = "phase2-archive"
  /\ aruns = 2
  /\ Len(inbox) < Len(inbox0)
  /\ \E p \in 1..Len(oplog) :
        /\ StoreOK(oplog[p])
        /\ \E k \in 1..Len(inbox) :
              /\ inbox[k].uid \in oplog[p].uids
              /\ inbox[k].uid # k
              /\ inbox[k].mid # k
              /\ inbox[k].deleted


(***************************************************************************)
(* Properties of an interrupted archive run (SpecInterrupt).               *)
(***************************************************************************)
\* Where a message that left INBOX is kept: All Mail on Gmail, the holding
\* folder elsewhere.
PreservedElsewhere(uid) == IF gmail THEN uid \in allmail ELSE uid \in holding

RemovedFromInbox == UidsOf(inbox0) \ UidsOf(inbox)

\* What the scan of this command returns on a mailbox.
ScanOf(box) ==
  IF cmd = "archive" THEN scan_inbox_uids_by_sender(box, target)
  ELSE scan_inbox_uids_for_phase2(box, target, messages_lookup_of(inbox0))

\* INBOX after one uninterrupted run on the first mailbox, every command
\* answered OK: the matches are flagged and the expunge follows; a dry run
\* and a run without matches leave INBOX as it was.
UninterruptedInbox ==
  LET uids == Range(ScanOf(inbox0))
  IN IF dry_run \/ uids = {} THEN inbox0
     ELSE expunge([k \in 1..Len(inbox0) |->
                     IF inbox0[k].uid \in uids
                     THEN [inbox0[k] EXCEPT !.deleted = TRUE]
                     ELSE inbox0[k]])

AllAnsweredOK == \A p \in 1..Len(oplog) : oplog[p].typ = "OK"

\* A first run that is not interrupted ends with UninterruptedInbox.
UninterruptedRunAgrees ==
  (aruns = 1 /\ apc = "done" /\ AllAnsweredOK) => inbox = UninterruptedInbox

\* The run started after an interrupt (only ArchRestart raises aruns under
\* SpecInterrupt) has returned, every command of it answered OK.
RestartedRunEnded == aruns >= 2 /\ apc = "done" /\ AllAnsweredOK

\* The messages the runs flagged themselves are preserved when they leave.
OwnFlaggedPreserved ==
  \A m \in Range(inbox0) :
      (m.uid \in RemovedFromInbox /\ ~m.deleted) => PreservedElsewhere(m.uid)

SameInboxAsUninterrupted == RestartedRunEnded => inbox = UninterruptedInbox

\* C29.  If an archive run is interrupted at any point (between a copy and
\* its flag store, between batches, or before the expunge) and the same
\* archive operation is then run again, no message is ever removed from
\* INBOX without being preserved elsewhere, and the second run ends with
\* the same INBOX contents as one uninterrupted run.
C29_InterruptedRunSafe ==
  /\ aruns >= 2 => \A uid \in RemovedFromInbox : PreservedElsewhere(uid)
  /\ SameInboxAsUninterrupted


(***************************************************************************)
(* Properties of the checkpoint's contents (SpecFetch).                    *)
(***************************************************************************)
\* The identifiers the checkpoint file of the running command holds.
CheckpointIds(fs) == fetched_ids(fs[CheckpointPath(phase)].data)

\* The identifiers this run has fetched and recorded so far.
FetchedThisRun == requested \ (lost \cup malformed)

\* Between two batches the checkpoint is the accumulator: what this run
\* fetched and what it loaded (nothing has been written yet when a run
\* without a prior checkpoint has recorded nothing).
CheckpointIsAccumulator ==
  fpc = "loop" =>
      /\ files[CheckpointPath(phase)].data = acc
      /\ FetchedThisRun \subseteq CheckpointIds(files)
      /\ \A d \in snapshots[CheckpointPath(phase)] :
            files[CheckpointPath(phase)].exists /\ runs = 1 /\ crashes = 0
                => fetched_ids(d) \subseteq CheckpointIds(files)

\* The snapshot a save has written out is the whole accumulator.
SnapshotIsAccumulator ==
  fpc = "save_rename" => files[with_suffix_tmp(CheckpointPath(phase))].data = acc

CheckpointNeverShrinks == CheckpointIds(files) \subseteq CheckpointIds(files')

\* C30.  After every batch that fetch_metadata or fetch_bodies_batch
\* completes, the checkpoint on disk holds the whole accumulator (every
\* record fetched so far in this run plus every record loaded from the
\* prior checkpoint), so the set of identifiers in the checkpoint never
\* shrinks from one write to the next.
C30_CheckpointHoldsAccumulator ==
  /\ [](CheckpointIsAccumulator /\ SnapshotIsAccumulator)
  /\ [][CheckpointNeverShrinks]_vars

\* A run that resumed from a checkpoint has completed a batch of its own:
\* the checkpoint holds the loaded records and the new ones.
C30_Witness ==
  /\ fpc = "loop"
  /\ runs >= 2
  /\ offset > 0
  /\ FetchedThisRun # {}
  /\ CheckpointIds(files) \ requested # {}
  /\ FetchedThisRun \subseteq CheckpointIds(files)
  /\ files[CheckpointPath(phase)].data = acc


(***************************************************************************)
(* Properties of a resumed fetch (SpecFetch).                              *)
(***************************************************************************)
\* The records and identifiers of the checkpoint a starting run loads.
LoadedRecords == load_checkpoint(files[CheckpointPath(phase)]).data

LoadedIds == fetched_ids(LoadedRecords)

\* A step that starts a run.
RunStarts == fpc = "idle" /\ fpc' = "loop"

\* The run that starts takes the checkpoint's records as its accumulator
\* and the identifiers the checkpoint lacks, all of them, as its work list.
ResumeFromCheckpoint ==
  RunStarts =>
      /\ acc' = LoadedRecords
      /\ Range(remaining') = Range(msg_ids) \ LoadedIds

\* A run requests identifiers of its work list only, every one of them by
\* the time it returns, and keeps every record of the checkpoint file.
RequestsOnlyWorkList ==
  fpc # "idle" =>
      /\ requested \subseteq Range(remaining)
      /\ fpc = "done" => requested = Range(remaining)
      /\ Range(files[CheckpointPath(phase)].data) \subseteq Range(acc)
      /\ fpc = "done" => Range(files[CheckpointPath(phase)].data) \subseteq Range(returned)

\* C31.  On resume, fetch_metadata and fetch_bodies_batch request from the
\* server exactly the identifiers that are absent from the loaded
\* checkpoint: no identifier present in the checkpoint is fetched again and
\* none of the checkpoint's records is discarded.
C31_ResumeRequestsOnlyMissing ==
  /\ []RequestsOnlyWorkList
  /\ [][ResumeFromCheckpoint]_vars

\* A run resumed from a checkpoint that held some of the identifiers has
\* returned: it requested the others, and only them.
C31_Witness ==
  /\ fpc = "done"
  /\ runs >= 2
  /\ requested # {}
  /\ requested = Range(remaining)
  /\ Range(msg_ids) \ requested # {}
  /\ Range(msg_ids) \ requested \subseteq fetched_ids(returned)


(***************************************************************************)
(* C32.  The FETCH commands of one run of fetch_bodies_batch, as the       *)
(* server sees them.                                                       *)
(***************************************************************************)
\* The positions of the batch commands in the run's log, in order.
BatchPositions == SelectSeq([k \in 1..Len(fetchlog) |-> k],
                            LAMBDA k : ~fetchlog[k].single)

TimedOutAt(k) == ~fetchlog[k].single /\ fetchlog[k].outcome = "timeout"

\* The commands that follow the timed-out batch at k name its identifiers
\* one by one, in the batch's order.
RetriedSingly(k) ==
    LET b == fetchlog[k].ids
    IN /\ Len(fetchlog) >= k + Len(b)
       /\ \A j \in 1..Len(b) :
            /\ fetchlog[k + j].single
            /\ fetchlog[k + j].ids = <<b[j]>>

\* A single-identifier retry belongs to the timed-out batch just before it.
OnlyThatBatch ==
    \A k \in 1..Len(fetchlog) :
        fetchlog[k].single =>
            \E t \in 1..(k - 1) : /\ TimedOutAt(t)
                                   /\ k - t <= Len(fetchlog[t].ids)

\* The j-th batch command names the j-th slice of the work list, at the
\* normal batch size, whatever happened to the batches before it.
NormalBatches ==
    \A j \in 1..Len(BatchPositions) :
        fetchlog[BatchPositions[j]].ids =
            Slice(remaining, (j - 1) * BatchSize(phase), BatchSize(phase))

\* The retry is over and the loop is about to fetch the next batch: the
\* checkpoint on disk is the accumulator.
CheckpointAfterRetry ==
    (/\ fpc = "loop"
     /\ fetchlog # <<>>
     /\ fetchlog[Len(fetchlog)].single)
    => LET f == files[CheckpointPath(phase)]
       IN f.exists /\ f.complete /\ f.data = acc

\* C32: a body batch that fails with TimeoutError or OSError is retried
\* identifier by identifier, only the identifiers of that batch are retried,
\* a checkpoint is written after the retry, and the batches after it are
\* again fetched as whole batches of the normal size.
C32_TimeoutRetriesBatchSingly ==
    /\ \A k \in 1..Len(fetchlog) : TimedOutAt(k) => RetriedSingly(k)
    /\ OnlyThatBatch
    /\ NormalBatches
    /\ CheckpointAfterRetry

\* A batch of two timed out, was retried singly, the checkpoint was written
\* and the following batch has been fetched as a batch.
C32_Witness ==
    /\ phase = "bodies"
    /\ Len(fetchlog) >= 4
    /\ TimedOutAt(1)
    /\ Len(fetchlog[1].ids) = BodyBatchSize
    /\ ~fetchlog[4].single
    /\ fetchlog[4].outcome = "OK"
    /\ fpc = "done"


(***************************************************************************)
(* C33.  Termination of a fetch run.                                       *)
(***************************************************************************)
\* The steps the running process takes by itself.
RunStep ==
    \/ FetchBatch
    \/ FetchBatchTimeout
    \/ FetchBatchError
    \/ FetchLoopEnd
    \/ SaveOpen
    \/ SaveWrite
    \/ SaveRename

\* The runs of a process that nobody kills.
RunNext ==
    \/ FetchStart
    \/ RunStep
    \/ FetchExit

\* A run that is started goes on to its end: every FETCH returns or raises,
\* every write completes.
SpecFetchRun == InitFetch /\ [][RunNext]_vars /\ WF_vars(RunStep)

\* The number of commands of the log that name identifier id.
RequestsOf(id, single) ==
    Cardinality({k \in 1..Len(fetchlog) :
                    /\ fetchlog[k].single = single
                    /\ id \in Range(fetchlog[k].ids)})

\* An identifier is named by at most one batch command and at most one
\* single command, and by a single command only after its batch timed out.
AtMostTwice ==
    \A id \in 1..NumMsgs :
        /\ RequestsOf(id, FALSE) <= 1
        /\ RequestsOf(id, TRUE) <= 1
        /\ RequestsOf(id, TRUE) = 1 =>
              \E t \in 1..Len(fetchlog) : TimedOutAt(t) /\ id \in Range(fetchlog[t].ids)
        /\ phase = "metadata" => RequestsOf(id, TRUE) = 0

\* No command follows a failed single command for the same identifier, and
\* none follows a batch command that failed otherwise than by a timeout.
FailedIsSkipped ==
    \A k \in 1..Len(fetchlog) :
        (fetchlog[k].outcome = "error") =>
            \A j \in (k + 1)..Len(fetchlog) :
                Range(fetchlog[j].ids) \cap Range(fetchlog[k].ids) = {}

\* What is left of the run: the identifiers not yet reached, then the steps
\* of the save in progress.
StepsLeft ==
    LET work == IF offset < Len(remaining) THEN Len(remaining) - offset ELSE 0
        tmp == files[with_suffix_tmp(CheckpointPath(phase))]
        rank == CASE fpc = "loop" -> NumMsgs + 4
                  [] fpc = "save_open" -> NumMsgs + 3
                  [] fpc = "save_write" -> 2 + (NumMsgs - Len(tmp.data))
                  [] fpc = "save_rename" -> 1
                  [] OTHER -> 0
    IN work * (NumMsgs + 5) + rank

EveryStepCloser == RunStep => (StepsLeft' < StepsLeft /\ StepsLeft' >= 0)

C33_BoundedRequests ==
    /\ [](AtMostTwice /\ FailedIsSkipped)
    /\ [][EveryStepCloser]_vars

ParseInit ==
    /\ phase \in {"metadata", "bodies"}
    /\ malformed \in SUBSET (1..NumMsgs)
    /\ undecodable \in SUBSET (1..NumMsgs)
    /\ files = [n \in FileNames |-> Absent]
    /\ fpc = "idle"
    /\ acc = <<>>
    /\ remaining = <<>>
    /\ offset = 0
    /\ finalSave = FALSE
    /\ lost = {}
    /\ requested = {}
    /\ fetchlog = <<>>
    /\ returned = <<>>
    /\ snapshots = [n \in FileNames |-> {}]
    /\ crashes = 0
    /\ runs = 0

ParseNext ==
    \/ FetchStart
    \/ RunStep
    \/ FetchItemRaises
    \/ FetchExit

InitParse == ParseInit /\ ArchiveIdle /\ AnalyseIdle /\ SessionIdle
SpecParse == InitParse /\ [][ParseNext]_vars

\* The identifiers of the batches the server has answered in this run.
AnsweredIds ==
    UNION {Range(fetchlog[k].ids) : k \in {j \in 1..Len(fetchlog) :
                                              fetchlog[j].outcome = "OK"}}

\* Once the item loop of the last answered batch is over, every answered
\* message whose own item parses is in the accumulator.
OthersRecorded ==
    fpc \in {"save_open", "save_write", "save_rename", "done", "raised"} =>
        \A id \in AnsweredIds :
            (id \notin malformed /\ (phase = "metadata" => id \notin undecodable))
                => id \in fetched_ids(acc)

\* The run goes on past a batch that held an item that does not parse.
RunContinues == fpc # "raised"

\* C34: an item of a batch response that is malformed or does not parse is
\* skipped by itself: the other messages of the batch are recorded, and the
\* batch and the run go on without raising.
C34_BadItemSkippedAlone == OthersRecorded /\ RunContinues

\* What holds of the items the loop does test for (None, not a tuple, a
\* sequence part that is not bytes, a header block message_from_bytes
\* rejects): they are left out and the rest of the batch is recorded.
C34_TestedItemsSkipped ==
    (fpc \in {"save_open", "save_write", "save_rename", "done"}) =>
        /\ \A id \in AnsweredIds : id \notin malformed => id \in fetched_ids(acc)
        /\ \A id \in malformed : id \notin fetched_ids(acc)


(***************************************************************************)
(* C35.  The count an archive operation returns.                           *)
(***************************************************************************)
\* The batches whose flag store, and with folders whose copy, was answered OK.
AcceptedBatches ==
    {b \in BatchStarts :
        /\ \E p \in Issued("store", b) : oplog[p].typ = "OK"
        /\ ~gmail => \E p \in Issued("copy", b) : oplog[p].typ = "OK"}

RECURSIVE IdentifiersIn(_)
\* The number of identifiers in the batches that start at `starts`.
IdentifiersIn(starts) ==
    IF starts = {} THEN 0
    ELSE LET b == CHOOSE x \in starts : TRUE
         IN Len(Slice(matched_uids, b, ArchiveBatchSize)) + IdentifiersIn(starts \ {b})

HoldingFolderFailed == ~gmail /\ ~dry_run /\ matched_uids # <<>> /\ archive_folder = NoFolder

\* C35: the count an archive operation returns is the number of identifiers
\* in the batches whose store (and, with folders, copy) was answered OK; it
\* is at most the number of matched identifiers, and it is 0 for a dry run,
\* for an empty match and when no holding folder is available.
C35_ReturnedCount ==
    apc = "done" =>
        /\ ret = IdentifiersIn(AcceptedBatches)
        /\ ret <= Len(matched_uids)
        /\ (dry_run \/ matched_uids = <<>> \/ HoldingFolderFailed) => ret = 0

\* A run with folders returned after two batches, one of them refused: the
\* count is that of the other batch, below the number matched.
C35_Witness ==
    /\ apc = "done"
    /\ ~gmail
    /\ Cardinality(BatchStarts) = 2
    /\ Cardinality(AcceptedBatches) = 1
    /\ ret = IdentifiersIn(AcceptedBatches)
    /\ ret > 0
    /\ ret < Len(matched_uids)


(***************************************************************************)
(* C36.  archive_messages and phase2_archive, each replayed from its own   *)
(* source over a list of matched UIDs, a backend, the result of            *)
(* ensure_archive_folder and the server's answers to the copy and the      *)
(* store of every batch.                                                   *)
(***************************************************************************)
RECURSIVE archive_messages_loop(_, _, _, _, _, _, _)
\* archive_messages lines 593-611
archive_messages_loop(matched, i, batch_size, gm, folder, ans, st) ==
    IF i >= Len(matched) THEN st
    ELSE LET batch == Slice(matched, i, batch_size)
             copy == LogOp("copy", Range(batch), folder, ans[i].copy)
             store == LogOp("store", Range(batch), "+FLAGS", ans[i].store)
             next == IF ~gm /\ ans[i].copy # "OK"
                     THEN [st EXCEPT !.ops = Append(@, copy)]
                     ELSE LET copied == IF gm THEN st.ops ELSE Append(st.ops, copy)
                          IN IF ans[i].store # "OK"
                             THEN [st EXCEPT !.ops = Append(copied, store)]
                             ELSE [ops |-> Append(copied, store),
                                   archived |-> st.archived + Len(batch)]
         IN archive_messages_loop(matched, i + batch_size, batch_size, gm, folder, ans, next)

\* archive_messages lines 564-628: the commands sent after the scan, whether
\* the All Mail count was snapshotted, whether the safety check ran, and the
\* value returned.
archive_messages_ops(matched, gm, dry, r, ans) ==
    IF matched = <<>>
    THEN [ops |-> <<>>, snapshot |-> FALSE, checked |-> FALSE, count |-> 0]
    ELSE IF dry
    THEN [ops |-> <<>>, snapshot |-> FALSE, checked |-> FALSE, count |-> 0]
    ELSE IF ~gm /\ r.folder = NoFolder
    THEN [ops |-> r.ops, snapshot |-> FALSE, checked |-> FALSE, count |-> 0]
    ELSE LET setup == IF gm THEN <<>> ELSE r.ops
             start == [ops |-> Append(setup, LogOp("select_rw", {}, "INBOX", "OK")),
                       archived |-> 0]
             end == archive_messages_loop(matched, 0, ArchiveBatchSize, gm,
                                          IF gm THEN NoFolder ELSE r.folder, ans, start)
         IN [ops |-> Append(end.ops, LogOp("expunge", {}, "INBOX", "OK")),
             snapshot |-> gm, checked |-> TRUE, count |-> end.archived]

RECURSIVE phase2_archive_loop(_, _, _, _, _, _, _)
\* phase2_archive lines 1498-1514
phase2_archive_loop(matched, i, batch_size, gm, folder, ans, st) ==
    IF i >= Len(matched) THEN st
    ELSE LET batch == Slice(matched, i, batch_size)
             copy == LogOp("copy", Range(batch), folder, ans[i].copy)
             store == LogOp("store", Range(batch), "+FLAGS", ans[i].store)
             next == IF ~gm /\ ans[i].copy # "OK"
                     THEN [st EXCEPT !.ops = Append(@, copy)]
                     ELSE LET copied == IF gm THEN st.ops ELSE Append(st.ops, copy)
                          IN IF ans[i].store # "OK"
                             THEN [st EXCEPT !.ops = Append(copied, store)]
                             ELSE [ops |-> Append(copied, store),
                                   archived |-> st.archived + Len(batch)]
         IN phase2_archive_loop(matched, i + batch_size, batch_size, gm, folder, ans, next)

\* The mutant of phase2_archive_ops: the matched UIDs go out as one batch.
phase2_archive_ops_one_batch(matched, gm, dry, r, ans) ==
    IF matched = <<>>
    THEN [ops |-> <<>>, snapshot |-> FALSE, checked |-> FALSE, count |-> 0]
    ELSE IF dry
    THEN [ops |-> <<>>, snapshot |-> FALSE, checked |-> FALSE, count |-> 0]
    ELSE IF ~gm /\ r.folder = NoFolder
    THEN [ops |-> r.ops, snapshot |-> FALSE, checked |-> FALSE, count |-> 0]
    ELSE LET setup == IF gm THEN <<>> ELSE r.ops
             start == [ops |-> Append(setup, LogOp("select_rw", {}, "INBOX", "OK")),
                       archived |-> 0]
             end == phase2_archive_loop(matched, 0, Len(matched), gm,
                                        IF gm THEN NoFolder ELSE r.folder, ans, start)
         IN [ops |-> Append(end.ops, LogOp("expunge", {}, "INBOX", "OK")),
             snapshot |-> gm, checked |-> TRUE, count |-> end.archived]

\* phase2_archive lines 1469-1526, from the scan's result on; batch_size is
\* the local of line 1482.
phase2_archive_ops(matched, gm, dry, r, ans) ==
    IF matched = <<>>
    THEN [ops |-> <<>>, snapshot |-> FALSE, checked |-> FALSE, count |-> 0]
    ELSE IF dry
    THEN [ops |-> <<>>, snapshot |-> FALSE, checked |-> FALSE, count |-> 0]
    ELSE IF ~gm /\ r.folder = NoFolder
    THEN [ops |-> r.ops, snapshot |-> FALSE, checked |-> FALSE, count |-> 0]
    ELSE LET setup == IF gm THEN <<>> ELSE r.ops
             start == [ops |-> Append(setup, LogOp("select_rw", {}, "INBOX", "OK")),
                       archived |-> 0]
             end == phase2_archive_loop(matched, 0, Phase2BatchSize, gm,
                                        IF gm THEN NoFolder ELSE r.folder, ans, start)
         IN [ops |-> Append(end.ops, LogOp("expunge", {}, "INBOX", "OK")),
             snapshot |-> gm, checked |-> TRUE, count |-> end.archived]

\* The folders the server held before the run created any.
FoldersBefore ==
    folders \ {oplog[p].arg : p \in {q \in 1..Len(oplog) :
                                        oplog[q].op = "create" /\ oplog[q].typ = "OK"}}

\* The answers the server gave in this run to the copy and the store of the
\* batch starting at i (OK for a command the run did not send).
AnswerTo(kind, i) ==
    LET sent == {p \in 1..Len(oplog) :
                    /\ oplog[p].op = kind
                    /\ i < Len(matched_uids)
                    /\ oplog[p].uids = Range(Slice(matched_uids, i, ArchiveBatchSize))}
    IN IF sent = {} THEN "OK" ELSE oplog[CHOOSE p \in sent : TRUE].typ

ServerAnswers == [i \in 0..NumInbox |-> [copy |-> AnswerTo("copy", i),
                                         store |-> AnswerTo("store", i)]]

\* The commands of the log; what an expunge removed is the server's part.
CommandsSent ==
    [p \in 1..Len(oplog) |->
        IF oplog[p].op = "expunge" THEN [oplog[p] EXCEPT !.uids = {}] ELSE oplog[p]]

AsArchiveMessages ==
    archive_messages_ops(matched_uids, gmail, dry_run,
                         ensure_archive_folder(FoldersBefore, creatable), ServerAnswers)

AsPhase2Archive ==
    phase2_archive_ops(matched_uids, gmail, dry_run,
                       ensure_archive_folder(FoldersBefore, creatable), ServerAnswers)

\* What the run that has returned did.
RunDid ==
    [ops |-> CommandsSent,
     snapshot |-> (gmail /\ HasExpunged),
     checked |-> HasExpunged,
     count |-> ret]

\* C36: over the same matched identifiers, the same backend and the same
\* server answers, archive_messages and phase2_archive send the same
\* commands in the same order (snapshot or folder setup, copy and store per
\* batch of the same size, one expunge, the safety check) and return the
\* same count; and the run of either command is that sequence.
C36_SameOperationsSameCount ==
    apc = "done" =>
        /\ AsArchiveMessages = AsPhase2Archive
        /\ cmd = "archive" => RunDid = AsArchiveMessages
        /\ cmd = "phase2-archive" => RunDid = AsPhase2Archive

\* A phase-2 run with folders returned after two batches, the first of them
\* refused at the copy.
C36_Witness ==
    /\ apc = "done"
    /\ cmd = "phase2-archive"
    /\ ~gmail
    /\ Len(matched_uids) > ArchiveBatchSize
    /\ AnswerTo("copy", 0) = "NO"
    /\ RunDid = AsArchiveMessages
    /\ ret > 0


(***************************************************************************)
(* C37.  ensure_archive_folder.                                            *)
(***************************************************************************)
\* ensure_archive_folder has returned in this run.
FolderEnsured ==
    /\ ~gmail
    /\ ~dry_run
    /\ matched_uids # <<>>
    /\ apc \in {"select", "batch", "store", "verify", "done"}

\* The CREATE commands of the log, in order.
Creates == SelectSeq(oplog, LAMBDA o : o.op = "create")

\* C37: when a folder under the primary name or under the fallback name
\* exists, ensure_archive_folder returns an existing holding folder and sends
\* no CREATE; otherwise it tries the primary name, the fallback name only if
\* that is refused, and returns no folder only when both are refused.
C37_ExistingFolderNoCreate ==
    FolderEnsured =>
        /\ (FoldersBefore \cap HoldingNames # {}) =>
              /\ Creates = <<>>
              /\ archive_folder \in FoldersBefore
        /\ (FoldersBefore \cap HoldingNames = {}) =>
              /\ Len(Creates) \in {1, 2}
              /\ Creates[1].arg = "Archive"
              /\ Len(Creates) = 2 <=> Creates[1].typ # "OK"
              /\ Len(Creates) = 2 => Creates[2].arg = "INBOX.Archive"
        /\ archive_folder = NoFolder <=>
              (Len(Creates) = 2 /\ Creates[1].typ # "OK" /\ Creates[2].typ # "OK")

\* What holds: the same with "a folder exists" read as "a LIST line matches
\* the primary name".
C37_PrimaryListedNoCreate ==
    FolderEnsured =>
        /\ ("Archive" \in FoldersBefore) =>
              /\ Creates = <<>>
              /\ archive_folder = "Archive"
        /\ ("Archive" \notin FoldersBefore) =>
              /\ Len(Creates) \in {1, 2}
              /\ Creates[1].arg = "Archive"
              /\ Len(Creates) = 2 <=> Creates[1].typ # "OK"
              /\ Len(Creates) = 2 => Creates[2].arg = "INBOX.Archive"
        /\ archive_folder = NoFolder <=>
              (Len(Creates) = 2 /\ Creates[1].typ # "OK" /\ Creates[2].typ # "OK")


(***************************************************************************)
(* The pipeline and the monitor as concurrent processes.  A pass1 or pass2 *)
(* process makes its file writes one by one; the monitor's loop may make   *)
(* a pass between any two of them.                                         *)
(***************************************************************************)
\* return None
NoCount == -1

\* open(path, "w"): the file exists and is empty until json.dump has written
\* the whole document.
OpenedFile == [exists |-> TRUE, data |-> <<>>, complete |-> FALSE]

Partial(f) == f.exists /\ ~f.complete

WriteStep(file, op, data) == [file |-> file, op |-> op, data |-> data]

\* The writes of fetch_metadata's save_checkpoint after each batch it still
\* has to fetch, then pass1_sender_analysis lines 312-314 and main lines
\* 1602-1605: the summary and the message list, each opened and then written.
pass1_writes(arts, n) ==
    LET cp == load_checkpoint(arts["checkpoint_metadata.json"])
        have == Min(Len(cp.data), n)
        nbatches == (n - have + MetaBatchSize - 1) \div MetaBatchSize
    IN [b \in 1..nbatches |->
           WriteStep("checkpoint_metadata.json", "replace",
                     [k \in 1..Min(have + b * MetaBatchSize, n) |-> k])]
       \o <<WriteStep("pass1_summary.json", "open", <<>>),
            WriteStep("pass1_summary.json", "write", <<n>>),
            WriteStep("all_messages.json", "open", <<>>),
            WriteStep("all_messages.json", "write", [k \in 1..n |-> k])>>

\* pass2_body_analysis: nothing when no message remains; else
\* fetch_bodies_batch's save_checkpoint after each batch and once more after
\* the loop, then pass2_remaining.json, opened and then written (lines
\* 459-461).
pass2_writes(arts) ==
    LET n == Len(arts["all_messages.json"].data)
        cp == load_checkpoint(arts["checkpoint_bodies.json"])
        have == Min(Len(cp.data), n)
        nbatches == (n - have + BodyBatchSize - 1) \div BodyBatchSize
    IN IF n = 0 THEN <<>>
       ELSE [b \in 1..nbatches |->
                WriteStep("checkpoint_bodies.json", "replace",
                          [k \in 1..Min(have + b * BodyBatchSize, n) |-> k])]
            \o <<WriteStep("checkpoint_bodies.json", "replace", [k \in 1..n |-> k]),
                 WriteStep("pass2_remaining.json", "open", <<>>),
                 WriteStep("pass2_remaining.json", "write", [k \in 1..n |-> k])>>

\* The mutant of apply_write: save_checkpoint writes the checkpoint in place.
apply_write_in_place(arts, step) ==
    [arts EXCEPT ![step.file] = IF step.op = "write" THEN WrittenFile(step.data)
                                ELSE OpenedFile]

\* One write: save_checkpoint's rename puts the whole new document in place
\* (line 149); open(path, "w") truncates; the end of json.dump completes.
apply_write(arts, step) ==
    [arts EXCEPT ![step.file] = IF step.op = "open" THEN OpenedFile
                                ELSE WrittenFile(step.data)]

\* _get_total_messages: None when the summary is absent or does not parse.
get_total_messages(arts) ==
    LET f == arts["pass1_summary.json"]
    IN IF ~f.exists THEN NoCount
       ELSE IF ~f.complete THEN NoCount
       ELSE f.data[1]

\* _get_remaining_count: None when the message list is absent or does not
\* parse; the rules here list no sender.
get_remaining_count(arts) ==
    LET f == arts["all_messages.json"]
    IN IF ~f.exists THEN NoCount
       ELSE IF ~f.complete THEN NoCount
       ELSE Len(f.data)

\* The files one pass of monitor_command opens for their content.
monitor_reads(arts) ==
    LET ph == detect_phase(arts)
        there(names) == {n \in names : arts[n].exists}
        for_remaining == IF arts["all_messages.json"].exists
                            /\ arts["all_messages.json"].complete
                         THEN {"all_messages.json", "archive_rules.json"}
                         ELSE {"all_messages.json"}
    IN CASE ph = "p1-fetch" -> there({"pass1_summary.json", "checkpoint_metadata.json"})
         [] ph = "p2-fetch" -> there({"checkpoint_bodies.json", "pass1_summary.json"}
                                     \cup for_remaining)
         [] ph \in {"p1-done", "p2-pending"} -> there({"pass1_summary.json"})
         [] ph = "p2-done" -> there(for_remaining)
         [] OTHER -> {}

\* What one pass of monitor_command shows for the account (lines 874-927):
\* the phase, the checkpoint's count, the total and the remaining count,
\* None for what the phase does not show.
monitor_view(arts) ==
    LET ph == detect_phase(arts)
    IN CASE ph = "p1-fetch" ->
              <<ph, count_checkpoint(arts["checkpoint_metadata.json"]),
                get_total_messages(arts), NoCount>>
         [] ph = "p2-fetch" ->
              <<ph, count_checkpoint(arts["checkpoint_bodies.json"]),
                get_total_messages(arts), get_remaining_count(arts)>>
         [] ph \in {"p1-done", "p2-pending"} ->
              <<ph, NoCount, get_total_messages(arts), NoCount>>
         [] ph = "p2-done" -> <<ph, NoCount, NoCount, get_remaining_count(arts)>>
         [] OTHER -> <<ph, NoCount, NoCount, NoCount>>

\* main starts pass1 or pass2 (pass2 needs the rules and a message list it
\* can load, lines 1608-1616).
PipeStart ==
    /\ job = <<>>
    /\ sessions < MaxSessions
    /\ \E c \in {"pass1", "pass2"} :
          /\ c = "pass2" => /\ artifacts["archive_rules.json"].exists
                            /\ artifacts["all_messages.json"].exists
                            /\ artifacts["all_messages.json"].complete
          /\ job' = IF c = "pass1" THEN pass1_writes(artifacts, Len(mbox))
                    ELSE pass2_writes(artifacts)
    /\ job' # <<>>
    /\ sessions' = sessions + 1
    /\ UNCHANGED <<mbox, unread, uidnext, artifacts, last, before, addressed, changes>>
    /\ UNCHANGED <<rate_history, mon_time, rate_line>>
    /\ UNCHANGED nonSessionVars

\* The running process makes its next write.
PipeStep ==
    /\ job # <<>>
    /\ artifacts' = apply_write(artifacts, Head(job))
    /\ job' = Tail(job)
    /\ UNCHANGED <<mbox, unread, uidnext, last, before, addressed, sessions, changes>>
    /\ UNCHANGED <<rate_history, mon_time, rate_line>>
    /\ UNCHANGED nonSessionVars

\* The running process is killed; the files stay as they are.
PipeKill ==
    /\ job # <<>>
    /\ job' = <<>>
    /\ UNCHANGED <<mbox, unread, uidnext, artifacts, last, before, addressed,
                   sessions, changes>>
    /\ UNCHANGED <<rate_history, mon_time, rate_line>>
    /\ UNCHANGED nonSessionVars

\* Between the passes the rules are written after pass 1 and the
\* classification after pass 2, each as a whole file.
UserWrites ==
    /\ job = <<>>
    /\ \E n \in {"archive_rules.json", "pass2_classification.json"} :
          /\ ~artifacts[n].exists
          /\ n = "archive_rules.json" => artifacts["pass1_summary.json"].exists
          /\ n = "pass2_classification.json" => artifacts["pass2_remaining.json"].exists
          /\ artifacts' = [artifacts EXCEPT ![n] = WrittenFile(<<>>)]
    /\ UNCHANGED <<mbox, unread, uidnext, last, before, addressed, sessions, job, changes>>
    /\ UNCHANGED <<rate_history, mon_time, rate_line>>
    /\ UNCHANGED nonSessionVars

\* One pass of monitor_command's loop, at any moment; `before` keeps the
\* files as the pass found them.
MonitorPoll ==
    /\ last' = [NoCommand EXCEPT !.name = "monitor", !.lines = monitor_view(artifacts)]
    /\ before' = Snapshot
    /\ UNCHANGED <<mbox, unread, uidnext, artifacts, addressed, sessions, job, changes>>
    /\ UNCHANGED <<rate_history, mon_time, rate_line>>
    /\ UNCHANGED nonSessionVars

MonitorNext ==
    \/ PipeStart
    \/ PipeStep
    \/ PipeKill
    \/ UserWrites
    \/ MonitorPoll

InitMonitor == SessionInit /\ FetchIdle /\ ArchiveIdle /\ AnalyseIdle
SpecMonitor == InitMonitor /\ [][MonitorNext]_vars

(***************************************************************************)
(* C38.  What a pass of the monitor can read.                              *)
(***************************************************************************)
Polled == last.name = "monitor"

\* The files the last pass of the monitor opened while they were partially
\* written.
Torn == {n \in monitor_reads(before.artifacts) : Partial(before.artifacts[n])}

PhaseRank(ph) ==
    CASE ph = "idle" -> 0
      [] ph = "p1-fetch" -> 1
      [] ph = "p1-done" -> 2
      [] ph = "p2-pending" -> 3
      [] ph = "p2-fetch" -> 4
      [] ph = "p2-done" -> 5
      [] ph = "done" -> 6

\* The rank of the phase the last pass of the monitor reported.
ReportedRank == IF Polled THEN PhaseRank(last.lines[1]) ELSE 0

\* The files with their content forgotten: present ones are all alike.
PresenceOnly(arts) ==
    [n \in ArtifactNames |-> IF arts[n].exists THEN WrittenFile(<<>>) ELSE Absent]

\* The phase is a function of which files exist, and it is the stage of the
\* latest artifact of the pipeline's order that exists.
PhaseFromPresence ==
    Polled =>
        LET arts == before.artifacts
            has(n) == arts[n].exists
        IN /\ last.lines[1] = detect_phase(PresenceOnly(arts))
           /\ last.lines[1] =
                 IF has("pass2_classification.json") THEN "done"
                 ELSE IF has("pass2_remaining.json") THEN "p2-done"
                 ELSE IF has("archive_rules.json") /\ has("checkpoint_bodies.json")
                      THEN "p2-fetch"
                 ELSE IF has("archive_rules.json") THEN "p2-pending"
                 ELSE IF has("pass1_summary.json") THEN "p1-done"
                 ELSE IF has("checkpoint_metadata.json") THEN "p1-fetch"
                 ELSE "idle"

\* The pipeline never removes an artifact.
ArtifactsStay == \A n \in ArtifactNames : artifacts[n].exists => artifacts'[n].exists

\* C39: the phase the monitor reports depends only on which artifact files
\* exist, and while the pipeline creates its artifacts the reported phase
\* never moves back in the order not started, fetching metadata, awaiting
\* rules, ready for or fetching bodies, awaiting classification, complete.
C39_PhaseOnlyForward ==
    /\ []PhaseFromPresence
    /\ [][ArtifactsStay /\ ReportedRank' >= ReportedRank]_vars

\* The monitor reports "complete" over a directory that holds every
\* artifact, after it had reported an earlier phase before.
C39_Witness ==
    /\ Polled
    /\ last.lines[1] = "done"
    /\ \A n \in ArtifactNames : artifacts[n].exists /\ artifacts[n].complete
    /\ job = <<>>


(***************************************************************************)
(* The monitor's rate and ETA (monitor_command lines 893-927), for one     *)
(* account in the body fetch.                                              *)
(***************************************************************************)
\* "---" and "--:--"
NoRate == <<>>

\* The mutant of append_sample: the history is not bounded.
append_sample_unbounded(history, sample) == Append(history, sample)

\* deque(maxlen=RateWindow).append: the oldest sample leaves a full window.
append_sample(history, sample) ==
    IF Len(history) >= RateWindow THEN Append(Tail(history), sample)
    ELSE Append(history, sample)

\* _format_eta: the placeholder for a time that is not positive, else the
\* seconds (here whole seconds).
format_eta(left, dc, dt) ==
    IF left * dt <= 0 THEN NoCount ELSE (left * dt) \div dc

\* Lines 893-913 for one account: the sample is appended, and the rate dc/dt
\* (kept as the pair <<dc, dt>>) and the ETA are computed from the oldest
\* sample of the window and the current one.
monitor_rate(history, t, fetched, total_remaining) ==
    LET h == append_sample(history, <<t, fetched>>)
        oldest == h[1]
        dt == t - oldest[1]
        dc == fetched - oldest[2]
    IN [history |-> h,
        line |-> IF Len(h) >= 2 /\ dt > 0 /\ dc > 0
                  THEN [sampled |-> TRUE, rate |-> <<dc, dt>>,
                        eta |-> format_eta(total_remaining - fetched, dc, dt),
                        total |-> total_remaining, fetched |-> fetched]
                  ELSE [sampled |-> TRUE, rate |-> NoRate, eta |-> NoCount,
                        total |-> total_remaining, fetched |-> fetched]]

\* One pass of the monitor over the account: the clock has moved (or not),
\* the bodies checkpoint holds `fetched` records and _get_remaining_count
\* gives total_remaining (0 for None or 0: then nothing is sampled).
RateTick ==
    /\ \E d \in {-1, 0, 1, 2} :
          /\ mon_time + d >= 0
          /\ mon_time + d <= MaxClock
          /\ mon_time' = mon_time + d
    /\ \E fetched \in 0..MaxCount, total_remaining \in 0..MaxCount :
          IF total_remaining > 0
          THEN LET r == monitor_rate(rate_history, mon_time', fetched, total_remaining)
               IN rate_history' = r.history /\ rate_line' = r.line
          ELSE rate_history' = rate_history /\ rate_line' = NothingShown
    /\ UNCHANGED <<mbox, unread, uidnext, artifacts, last, before, addressed,
                   sessions, job, changes>>
    /\ UNCHANGED nonSessionVars

RateNext == RateTick

InitRate == SessionIdle /\ FetchIdle /\ ArchiveIdle /\ AnalyseIdle
SpecRate == InitRate /\ [][RateNext]_vars

(***************************************************************************)
(* C40.                                                                    *)
(***************************************************************************)
\* The window of the last sampling pass: its oldest sample and the current
\* one, the last appended.
WindowElapsed == rate_history[Len(rate_history)][1] - rate_history[1][1]
WindowProgress == rate_history[Len(rate_history)][2] - rate_history[1][2]

UsableWindow ==
    /\ Len(rate_history) >= 2
    /\ WindowElapsed > 0
    /\ WindowProgress > 0

====
